---- MODULE Spec2Model ----
(***************************************************************************)
(* A model of zakaz: the mailbox actor (shared/mailbox_processor), the     *)
(* Runtime built on it (zakaz/src/system) and the broker client's order    *)
(* template lifecycle (zakaz/src/ib/client.rs).                            *)
(*                                                                         *)
(* Three specifications share the mailbox variables:                       *)
(*   SpecMailbox   producers call MailboxProcessor::send / fire_and_forget *)
(*                 directly on a mailbox made with a small buffer;         *)
(*   SpecRuntime   producers go through Runtime::tell / Runtime::ask,      *)
(*                 starting right after Runtime::new has returned;         *)
(*   SpecScenario  one caller awaits a script of Runtime::ask calls.       *)
(* SpecBroker is the IBClient with its registry, order map and id counter. *)
(***************************************************************************)
EXTENDS Integers, Sequences, FiniteSets, TLC

\* ------------------------------------------------------------------ bounds
\* Number of producer tasks (tell / ask / send / fire_and_forget calls) in a run.
MaxTasks == 3
\* Buffer size handed to MailboxProcessor::new as BufferSize::Size(x) in SpecMailbox.
SmallBuffer == 2
\* BufferSize::Default, which Mailbox::make passes.
DefaultBuffer == 1000

\* Number of templates created in a run (each gets a fresh uuid).
MaxTemplates == 1
\* Number of order ids the counter hands out in a run.
MaxOrderIds == 2
\* IBClient::new: next_order_id starts here.
FirstOrderId == 1000

\* Number of subscribe calls made on an Event in a run.
MaxSubscribers == 2
\* Number of notify calls made on an Event in a run.
MaxNotifies == 3
\* Number of viewport operations and chart messages in a run.
MaxChartOps == 3
\* Longest series of daily bars, and largest period_days, of the enumerated
\* calculate_filtered_atr calls.
MaxAtrBars == 4
MaxPeriodDays == 3
\* ViewportController::new: min_zoom_bars and max_zoom_bars.
MinZoomBars == 5
MaxZoomBars == 500

Tasks == 1..MaxTasks
\* Runtime::new's own tell(NewState) is the first task of a Runtime run.
BootTask == 1

VARIABLES
    state,      \* the mailbox worker's `state` local (lib.rs:43)
    queue,      \* the mpsc channel of (Msg, Option<Sender<ReplyMsg>>) pairs
    capacity,   \* the channel's buffer size
    worker,     \* the worker task's position: "recv", "handle", "send", "dead"
    cur,        \* the pair the worker took with r.recv() and is handling
    mb_lock,    \* holder of Runtime.mailbox (tokio Mutex), 0 when free
    task,       \* the producer tasks: position, kind and message of each
    chan,       \* the single-slot reply channel of each producer
    result,     \* what each finished producer call returned
    issued,     \* how many producer calls have been made so far
    script,     \* SpecScenario: the messages the caller still has to ask
    enq,        \* history: task ids in the order their pair entered the channel
    started,    \* history: [t, in] of each handler invocation, in start order
    finished,   \* history: [t, out] of each handler invocation that returned
    paper_client,     \* IBClient.paper_client is Some
    live_client,      \* IBClient.live_client is Some
    active_account,   \* IBClient.active_account: "None", "Paper" or "Live"
    order_templates,  \* IBClient.order_templates: template id -> OrderTemplate
    active_orders,    \* IBClient.active_orders: order id -> template id
    next_order_id,    \* IBClient.next_order_id
    created,          \* how many template ids (uuids) have been generated
    op,               \* the activate / deactivate call in flight, with its
                      \* spawn_blocking closure's position
    broker_calls,     \* the broker calls of the call in flight or last returned
    last,             \* the IBClient call that returned last, and its result
    locks,            \* the IBClient's async locks whose guard the call in flight holds
    candidate,        \* SpecValidate: the OrderTemplate handed to validate
    verdict,          \* SpecValidate: what validate returned for it ("" before)
    subscribers,      \* Event.subscribers: the Vec of subscribers, in push order
    subscribers_lock, \* holder of Event.subscribers (tokio Mutex), <<>> when free
    ui_events_lock,   \* holder of Runtime.ui_events (tokio Mutex), <<>> when free
    stask,            \* the subscribe calls: position of each
    sub_at,           \* history: how many handler invocations had started when
                      \* each subscriber was pushed
    ntask,            \* the notify calls: position, argument, snapshot, loop index
    delivered,        \* history: the values each subscriber was called with
    handler,          \* handle_ib_message: its position, the IBMessage it was given
                      \* and what the IBClient call in its match returned
    ui_sent,          \* the UIMessages it handed to send_message_to_ui, in order
    response,         \* what it sent on the message's response channel
    viewport_controller,  \* State.viewport_controller: None or Some(ViewportController)
    chart_data,       \* State.chart_data: None or Some(number of bars)
    ib_client,        \* State.ib_client is Some
    chart_ui,         \* the last chart handler call: its message, how its fetch went,
                      \* and the UIMessages it passed to send_message_to_ui
    chart_ops,        \* how many viewport or chart operations have run
    atr_call,         \* the bars and arguments of a calculate_filtered_atr call
    atr_result,       \* None, or Some(what the call came to)
    size_call,        \* the arguments of a calculate_position_size call
    size_result       \* None, or Some(what the call returned)

mvars == <<state, queue, capacity, worker, cur, mb_lock, task, chan, result,
           issued, script, enq, started, finished>>

bvars == <<paper_client, live_client, active_account, order_templates,
           active_orders, next_order_id, created, op, broker_calls, last,
           locks>>

pvars == <<candidate, verdict>>

evars == <<subscribers, subscribers_lock, ui_events_lock, stask, sub_at, ntask,
           delivered>>

\* the variables of the components other than the mailbox, the broker client and
\* validate
hvars == <<handler, ui_sent, response>>

cvars == <<viewport_controller, chart_data, ib_client, chart_ui, chart_ops>>

fvars == <<atr_call, atr_result, size_call, size_result>>

xvars == <<evars, hvars, cvars, fvars>>

vars == <<mvars, bvars, pvars, xvars>>

\* ------------------------------------------------------------------ State
\* State::new (start_time is wall-clock and the ib/chart handles are not modelled here)
State_new == [version |-> 0, counter |-> 0, is_running |-> FALSE, runtime |-> FALSE]

NoState == [version |-> -1, counter |-> 0, is_running |-> FALSE, runtime |-> FALSE]

\* State::load_or_default().0 with state.runtime = Some(runtime.clone())
BootState == [State_new EXCEPT !.runtime = TRUE]

\* RuntimeInMessage variants handled by Mailbox::make, without a payload
PlainKinds == {"Start", "Stop", "State", "IncrementCounter", "DecrementCounter",
               "ResetCounter", "Error"}

\* the variants whose arm does state_local.version += 1
BumpKinds == {"Start", "Stop", "IncrementCounter", "DecrementCounter", "ResetCounter"}

Msg(k) == [kind |-> k, st |-> NoState]

NewStateMsg(s) == [kind |-> "NewState", st |-> s]

NoMsg == [kind |-> "none", st |-> NoState]

\* RuntimeOutMessage
Rep(k, s, txt) == [kind |-> k, st |-> s, text |-> txt]

NoReply == Rep("none", NoState, "")

\* MailboxProcessorError of send / fire_and_forget when the mailbox channel is closed
MailboxClosed == Rep("Error", NoState, "the mailbox channel is closed")

\* MailboxProcessorError of send when r.recv() yields None
ResponseClosed == Rep("Error", NoState, "the response channel is closed")

\* a handler whose Start arm does not bump the version
FoldStartKeepsVersion(msg, s) ==
    CASE msg.kind = "NewState" -> msg.st
      [] msg.kind = "Start" -> [s EXCEPT !.is_running = TRUE]
      [] msg.kind = "Stop" -> [s EXCEPT !.version = @ + 1, !.is_running = FALSE]
      [] msg.kind = "IncrementCounter" -> [s EXCEPT !.version = @ + 1, !.counter = @ + 1]
      [] msg.kind = "DecrementCounter" -> [s EXCEPT !.version = @ + 1, !.counter = @ - 1]
      [] msg.kind = "ResetCounter" -> [s EXCEPT !.version = @ + 1, !.counter = 0]
      [] OTHER -> s

\* a handler whose ResetCounter arm leaves the counter alone
FoldResetKeepsCounter(msg, s) ==
    CASE msg.kind = "NewState" -> msg.st
      [] msg.kind = "Start" -> [s EXCEPT !.version = @ + 1, !.is_running = TRUE]
      [] msg.kind = "Stop" -> [s EXCEPT !.version = @ + 1, !.is_running = FALSE]
      [] msg.kind = "IncrementCounter" -> [s EXCEPT !.version = @ + 1, !.counter = @ + 1]
      [] msg.kind = "DecrementCounter" -> [s EXCEPT !.version = @ + 1, !.counter = @ - 1]
      [] msg.kind = "ResetCounter" -> [s EXCEPT !.version = @ + 1]
      [] OTHER -> s

\* the folding function of Mailbox::make: the State each arm returns
Fold(msg, s) ==
    CASE msg.kind = "NewState" -> msg.st
      [] msg.kind = "Start" -> [s EXCEPT !.version = @ + 1, !.is_running = TRUE]
      [] msg.kind = "Stop" -> [s EXCEPT !.version = @ + 1, !.is_running = FALSE]
      [] msg.kind = "State" -> s
      [] msg.kind = "IncrementCounter" -> [s EXCEPT !.version = @ + 1, !.counter = @ + 1]
      [] msg.kind = "DecrementCounter" -> [s EXCEPT !.version = @ + 1, !.counter = @ - 1]
      [] msg.kind = "ResetCounter" -> [s EXCEPT !.version = @ + 1, !.counter = 0]
      [] msg.kind = "Error" -> s

\* the RuntimeOutMessage each arm hands to notify_channel!
ReplyOf(msg, s) ==
    CASE msg.kind = "Start" -> Rep("Started", NoState, "")
      [] msg.kind = "State" -> Rep("State", s, "")
      [] msg.kind = "Error" -> Rep("Error", NoState, "error_msg")
      [] OTHER -> Rep("Ok", NoState, "")

\* ------------------------------------------------------------------ channels
NoChan == [st |-> "none", val |-> NoReply]

EmptyChan == [st |-> "empty", val |-> NoReply]

ClosedChan == [st |-> "closed", val |-> NoReply]

FullChan(r) == [st |-> "full", val |-> r]

NoTask == [pc |-> "none", kind |-> "none", msg |-> NoMsg]

NoCur == [t |-> 0, msg |-> NoMsg, reply |-> FALSE]

\* Sender::is_closed on the reply channel: the receiver half was dropped
IsClosed(t) == task[t].pc = "dropped"

\* the senders of every pair still in the channel, dropped with the receiver
DropQueued(c, q) ==
    [t \in Tasks |->
        IF \E i \in 1..Len(q) : q[i].t = t /\ q[i].reply THEN ClosedChan ELSE c[t]]


\* ------------------------------------------------------------------ the worker
\* a worker that takes the newest pair instead of the oldest
WorkerRecvNewest ==
    /\ worker = "recv"
    /\ queue # <<>>
    /\ LET e == queue[Len(queue)] IN
        /\ cur' = e
        /\ queue' = SubSeq(queue, 1, Len(queue) - 1)
        /\ started' = Append(started, [t |-> e.t, kind |-> e.msg.kind, in |-> state])
    /\ worker' = "handle"
    /\ UNCHANGED <<state, capacity, mb_lock, task, chan, result, issued, script,
                   enq, finished>>

\* `while let Some((msg, reply_channel)) = r.recv().await`: the oldest pair is taken
WorkerRecv ==
    /\ worker = "recv"
    /\ queue # <<>>
    /\ LET e == Head(queue) IN
        /\ cur' = e
        /\ queue' = Tail(queue)
        /\ started' = Append(started, [t |-> e.t, kind |-> e.msg.kind, in |-> state])
    /\ worker' = "handle"
    /\ UNCHANGED <<state, capacity, mb_lock, task, chan, result, issued, script,
                   enq, finished>>

\* the handler returned: `state = message_processing_function(..).await`
HandlerReturns(out) ==
    /\ state' = out
    /\ finished' = Append(finished, [t |-> cur.t, out |-> out])
    /\ cur' = NoCur
    /\ worker' = "recv"

\* The arm of the folding function up to notify_channel!'s `s.is_closed()` test:
\* with no reply channel, or with a closed one, the arm returns at once.
WorkerHandle ==
    /\ worker = "handle"
    /\ IF ~cur.reply \/ IsClosed(cur.t)
         THEN HandlerReturns(Fold(cur.msg, state))
         ELSE /\ worker' = "send"
              /\ UNCHANGED <<state, cur, finished>>
    /\ UNCHANGED <<queue, capacity, mb_lock, task, chan, result, issued, script,
                   enq, started>>

\* notify_channel!'s `s.send($message).await.unwrap()`: the reply is delivered and
\* the arm returns, or the receiver is gone by now, send is Err and unwrap panics:
\* the worker task ends, dropping the channel's receiver and all it holds.
WorkerReply ==
    /\ worker = "send"
    /\ IF IsClosed(cur.t)
         THEN /\ worker' = "dead"
              /\ queue' = <<>>
              /\ chan' = DropQueued(chan, queue)
              /\ cur' = NoCur
              /\ UNCHANGED <<state, finished>>
         ELSE /\ chan' = [chan EXCEPT ![cur.t] = FullChan(ReplyOf(cur.msg, state))]
              /\ HandlerReturns(Fold(cur.msg, state))
              /\ UNCHANGED queue
    /\ UNCHANGED <<capacity, mb_lock, task, result, issued, script, enq, started>>

\* ------------------------------------------------------------------ producers
\* a new producer call: the next task id, at position pc
Issue(kind, m, pc) ==
    /\ issued < MaxTasks
    /\ issued' = issued + 1
    /\ task' = [task EXCEPT ![issued + 1] = [pc |-> pc, kind |-> kind, msg |-> m]]

\* Runtime::tell: tokio::spawn of a task that will call ask
Tell(m) ==
    /\ Issue("tell", m, "spawned")
    /\ UNCHANGED <<state, queue, capacity, worker, cur, mb_lock, chan, result,
                   script, enq, started, finished>>

\* Runtime::ask called directly by a caller that awaits it
Ask(m) ==
    /\ Issue("ask", m, "spawned")
    /\ UNCHANGED <<state, queue, capacity, worker, cur, mb_lock, chan, result,
                   script, enq, started, finished>>

\* Runtime::ask: `let mb_lock = _self.mailbox.lock().await`
LockMailbox(t) ==
    /\ task[t].pc = "spawned"
    /\ mb_lock = 0
    /\ mb_lock' = t
    /\ task' = [task EXCEPT ![t].pc = "pushing"]
    /\ UNCHANGED <<state, queue, capacity, worker, cur, chan, result, issued,
                   script, enq, started, finished>>

\* the guard `mb_lock` of Runtime::ask goes out of scope
Unlock(t) == IF mb_lock = t THEN 0 ELSE mb_lock

\* MailboxProcessor::send called directly
MbSend(m) ==
    /\ Issue("send", m, "pushing")
    /\ UNCHANGED <<state, queue, capacity, worker, cur, mb_lock, chan, result,
                   script, enq, started, finished>>

\* MailboxProcessor::fire_and_forget called directly
MbFireAndForget(m) ==
    /\ Issue("faf", m, "pushing")
    /\ UNCHANGED <<state, queue, capacity, worker, cur, mb_lock, chan, result,
                   script, enq, started, finished>>

\* a channel that takes a pair whatever it holds
HasRoomAlways == TRUE

\* the bounded channel's send has a permit: fewer pairs are queued than the buffer
\* holds
HasRoom == Len(queue) < capacity

\* `self.message_sender.send((msg, reply)).await`: Err once the worker is gone,
\* waits while the buffer is full, else the pair enters the channel.
Push(t) ==
    /\ task[t].pc = "pushing"
    /\ IF worker = "dead"
         THEN /\ task' = [task EXCEPT ![t].pc = "done"]
              /\ result' = [result EXCEPT ![t] = MailboxClosed]
              /\ mb_lock' = Unlock(t)
              /\ UNCHANGED <<queue, chan, enq>>
         ELSE /\ HasRoom
              /\ queue' = Append(queue, [t |-> t, msg |-> task[t].msg,
                                         reply |-> task[t].kind # "faf"])
              /\ enq' = Append(enq, t)
              /\ IF task[t].kind = "faf"
                   THEN /\ task' = [task EXCEPT ![t].pc = "done"]
                        /\ result' = [result EXCEPT ![t] = Rep("Ok", NoState, "")]
                        /\ UNCHANGED chan
                   ELSE /\ task' = [task EXCEPT ![t].pc = "waiting"]
                        /\ chan' = [chan EXCEPT ![t] = EmptyChan]
                        /\ UNCHANGED result
              /\ UNCHANGED mb_lock
    /\ UNCHANGED <<state, capacity, worker, cur, issued, script, started, finished>>

\* `r.recv().await` of MailboxProcessor::send, and Runtime::ask's match on it
RecvReply(t) ==
    /\ task[t].pc = "waiting"
    /\ chan[t].st \in {"full", "closed"}
    /\ result' = [result EXCEPT ![t] =
                    IF chan[t].st = "full" THEN chan[t].val ELSE ResponseClosed]
    /\ task' = [task EXCEPT ![t].pc = "done"]
    /\ mb_lock' = Unlock(t)
    /\ UNCHANGED <<state, queue, capacity, worker, cur, chan, issued, script,
                   enq, started, finished>>

\* The caller drops the future of an awaited call (ask or send) before it resolves:
\* the reply receiver, if made, and the mailbox guard, if held, are dropped with it.
Abandon(t) ==
    /\ task[t].kind \in {"ask", "send"}
    /\ task[t].pc \in {"spawned", "pushing", "waiting"}
    /\ task' = [task EXCEPT ![t].pc = "dropped"]
    /\ mb_lock' = Unlock(t)
    /\ UNCHANGED <<state, queue, capacity, worker, cur, chan, result, issued,
                   script, enq, started, finished>>

\* SpecScenario's caller: `rt.ask(m).await` for the next message of its script,
\* issued once its previous ask has returned (the caller is one task, id 2).
ScriptTask == BootTask + 1

AskScripted ==
    /\ script # <<>>
    /\ task[ScriptTask].pc \in {"none", "done"}
    /\ task' = [task EXCEPT ![ScriptTask] =
                  [pc |-> "spawned", kind |-> "ask", msg |-> Msg(Head(script))]]
    /\ chan' = [chan EXCEPT ![ScriptTask] = NoChan]
    /\ script' = Tail(script)
    /\ UNCHANGED <<state, queue, capacity, worker, cur, mb_lock, result, issued,
                   enq, started, finished>>

\* ------------------------------------------------------------------ broker client
\* Option<T>
Some(x) == <<x>>

None == <<>>

TemplateIds == 1..MaxTemplates

\* f64: a number, or NaN
F(v) == <<v>>

NaN == <<>>

\* the f64 comparisons <=, >=: false when either side is NaN
FLe(a, b) == a # NaN /\ b # NaN /\ a[1] <= b[1]

FGe(a, b) == a # NaN /\ b # NaN /\ a[1] >= b[1]

\* the f64 comparisons >, <
FGt(a, b) == a # NaN /\ b # NaN /\ a[1] > b[1]

FLt(a, b) == a # NaN /\ b # NaN /\ a[1] < b[1]

\* f64 arithmetic, on numbers kept to 1/Scale: F(v) is the number v / Scale
\* wherever fractions matter, a result is rounded to the nearest 1/Scale, and NaN
\* makes the result NaN
Scale == 100

\* the whole number n as f64
Fx(n) == F(n * Scale)

\* n / d to the nearest integer, d > 0
RoundDiv(n, d) == (2 * n + d) \div (2 * d)

FAdd(a, b) == IF a = NaN \/ b = NaN THEN NaN ELSE F(a[1] + b[1])

FSub(a, b) == IF a = NaN \/ b = NaN THEN NaN ELSE F(a[1] - b[1])

FMul(a, b) == IF a = NaN \/ b = NaN THEN NaN ELSE F(RoundDiv(a[1] * b[1], Scale))

\* a / b for b other than zero
FDiv(a, b) ==
    IF a = NaN \/ b = NaN THEN NaN
    ELSE IF b[1] > 0 THEN F(RoundDiv(a[1] * Scale, b[1]))
    ELSE F(RoundDiv((0 - a[1]) * Scale, 0 - b[1]))

\* f64::min and f64::max: the other operand when one is NaN
FMin(a, b) == IF a = NaN THEN b ELSE IF b = NaN THEN a ELSE IF a[1] <= b[1] THEN a ELSE b

FMax(a, b) == IF a = NaN THEN b ELSE IF b = NaN THEN a ELSE IF a[1] >= b[1] THEN a ELSE b

\* the values a caller may give the fields validate looks at
Sides == {"Long", "Short"}

Quantities == {F(0), F(1)}

LimitPrices == {F(0), F(2)}

StopPrices == {F(0), F(1), F(2)}

\* OrderTemplate::new, with the id (a fresh uuid) kept as the registry key
NewTemplate(side, quantity, limit_price, stop_price) ==
    [side |-> side, quantity |-> quantity, limit_price |-> limit_price,
     stop_price |-> stop_price, status |-> "Inactive", parent_order_id |-> None,
     stop_order_id |-> None, activated_at |-> None]

\* OrderTemplate::validate: "Ok" or the first failing check
Validate(t) ==
    IF FLe(t.quantity, F(0)) THEN "Quantity must be positive"
    ELSE IF FLe(t.limit_price, F(0)) THEN "Limit price must be positive"
    ELSE IF FLe(t.stop_price, F(0)) THEN "Stop price must be positive"
    ELSE IF t.side = "Long" /\ FGe(t.stop_price, t.limit_price)
        THEN "For long orders, stop price must be below limit price"
    ELSE IF t.side = "Short" /\ FLe(t.stop_price, t.limit_price)
        THEN "For short orders, stop price must be above limit price"
    ELSE "Ok"

\* an is_active that looks for the wrong status
IsActivating(t) == t.status = "Activating"

\* OrderTemplate::is_active
IsActive(t) == t.status = "Active"

\* a can_activate that also lets an Active template through
CanActivateAlsoActive(t) == t.status \in {"Inactive", "Failed", "Active"}

\* OrderTemplate::can_activate
CanActivate(t) == t.status \in {"Inactive", "Failed"}

\* a can_deactivate that also lets a Failed template through
CanDeactivateAlsoFailed(t) == t.status \in {"Active", "Failed"}

\* OrderTemplate::can_deactivate
CanDeactivate(t) == t.status = "Active"

\* IBClient::get_active_client: is there a client for the active account
GetActiveClient ==
    CASE active_account = "Paper" -> IF paper_client THEN "Ok" ELSE "Paper client not connected"
      [] active_account = "Live" -> IF live_client THEN "Ok" ELSE "Live client not connected"
      [] OTHER -> "No active account selected"

\* HashMap::insert and HashMap::remove
MapInsert(m, k, v) == [x \in DOMAIN m \cup {k} |-> IF x = k THEN v ELSE m[x]]

MapRemove(m, k) == [x \in DOMAIN m \ {k} |-> m[x]]

NoOp == [name |-> "none", id |-> 0, pc |-> "", parent |-> None, stop |-> None,
         res |-> "", errors |-> {}]

\* what the last IBClient call returned: its result, the cause of an Err, and
\* for an activation or deactivation the two order ids it worked with
Returned(name, id, res, why, parent, stop) ==
    [op |-> name, id |-> id, res |-> res, why |-> why, parent |-> parent, stop |-> stop]

NoLast == Returned("none", 0, "none", "", None, None)

\* no template has been handed to validate on its own
InitNoCandidate ==
    /\ candidate = NewTemplate("Long", F(1), F(2), F(1))
    /\ verdict = ""

\* IBClient::new
InitBroker ==
    /\ paper_client = FALSE
    /\ live_client = FALSE
    /\ active_account = "None"
    /\ order_templates = <<>>
    /\ active_orders = <<>>
    /\ next_order_id = FirstOrderId
    /\ created = 0
    /\ op = NoOp
    /\ broker_calls = <<>>
    /\ last = NoLast
    /\ locks = {}

\* IBClient::connect_paper: Client::connect on a blocking task succeeds, fails,
\* or the task itself fails to join
ConnectPaper(outcome) ==
    /\ op.name = "none"
    /\ IF outcome = "ok"
         THEN /\ paper_client' = TRUE
              /\ active_account' = "Paper"
              /\ last' = Returned("connect_paper", 0, "Ok", "", None, None)
         ELSE /\ UNCHANGED <<paper_client, active_account>>
              /\ last' = Returned("connect_paper", 0, "Err", outcome, None, None)
    /\ broker_calls' = <<>>
    /\ UNCHANGED <<live_client, order_templates, active_orders, next_order_id,
                   created, op>>
    /\ UNCHANGED locks

\* IBClient::connect_live
ConnectLive(outcome) ==
    /\ op.name = "none"
    /\ IF outcome = "ok"
         THEN /\ live_client' = TRUE
              /\ active_account' = "Live"
              /\ last' = Returned("connect_live", 0, "Ok", "", None, None)
         ELSE /\ UNCHANGED <<live_client, active_account>>
              /\ last' = Returned("connect_live", 0, "Err", outcome, None, None)
    /\ broker_calls' = <<>>
    /\ UNCHANGED <<paper_client, order_templates, active_orders, next_order_id,
                   created, op>>
    /\ UNCHANGED locks

\* IBClient::disconnect
Disconnect ==
    /\ op.name = "none"
    /\ paper_client' = FALSE
    /\ live_client' = FALSE
    /\ active_account' = "None"
    /\ last' = Returned("disconnect", 0, "Ok", "", None, None)
    /\ broker_calls' = <<>>
    /\ UNCHANGED <<order_templates, active_orders, next_order_id, created, op>>
    /\ UNCHANGED locks

\* IBClient::switch_to_paper
SwitchToPaper ==
    /\ op.name = "none"
    /\ IF paper_client
         THEN /\ active_account' = "Paper"
              /\ last' = Returned("switch_to_paper", 0, "Ok", "", None, None)
         ELSE /\ UNCHANGED active_account
              /\ last' = Returned("switch_to_paper", 0, "Err", "not connected", None, None)
    /\ broker_calls' = <<>>
    /\ UNCHANGED <<paper_client, live_client, order_templates, active_orders,
                   next_order_id, created, op>>
    /\ UNCHANGED locks

\* a switch_to_live that does not look at the live handle
SwitchToLiveUnchecked ==
    /\ op.name = "none"
    /\ active_account' = "Live"
    /\ last' = Returned("switch_to_live", 0, "Ok", "", None, None)
    /\ broker_calls' = <<>>
    /\ UNCHANGED <<paper_client, live_client, order_templates, active_orders,
                   next_order_id, created, op>>
    /\ UNCHANGED locks

\* IBClient::switch_to_live
SwitchToLive ==
    /\ op.name = "none"
    /\ IF live_client
         THEN /\ active_account' = "Live"
              /\ last' = Returned("switch_to_live", 0, "Ok", "", None, None)
         ELSE /\ UNCHANGED active_account
              /\ last' = Returned("switch_to_live", 0, "Err", "not connected", None, None)
    /\ broker_calls' = <<>>
    /\ UNCHANGED <<paper_client, live_client, order_templates, active_orders,
                   next_order_id, created, op>>
    /\ UNCHANGED locks

\* IBClient::create_template of OrderTemplate::new(..): validate, then insert
\* under the template's id
CreateTemplate(side, quantity, limit_price, stop_price) ==
    /\ op.name = "none"
    /\ created < MaxTemplates
    /\ LET t == NewTemplate(side, quantity, limit_price, stop_price)
           id == created + 1
       IN IF Validate(t) # "Ok"
            THEN /\ last' = Returned("create_template", 0, "Err", "validation", None, None)
                 /\ UNCHANGED <<order_templates, created>>
            ELSE /\ order_templates' = MapInsert(order_templates, id, t)
                 /\ created' = id
                 /\ last' = Returned("create_template", id, "Ok", "", None, None)
    /\ broker_calls' = <<>>
    /\ UNCHANGED <<paper_client, live_client, active_account, active_orders,
                   next_order_id, op>>
    /\ UNCHANGED locks

\* the OrderTemplate a caller hands to update_template for template id: the
\* clone it got from get_template just now ("current") or the one it got when the
\* template was new ("created"), with the quantity edited
Copies == {"current", "created"}

EditedCopy(id, copy, quantity) ==
    IF id \notin DOMAIN order_templates
      THEN NewTemplate("Long", quantity, F(2), F(1))
    ELSE IF copy = "current"
      THEN [order_templates[id] EXCEPT !.quantity = quantity]
    ELSE [order_templates[id] EXCEPT !.quantity = quantity, !.status = "Inactive",
                                     !.parent_order_id = None, !.stop_order_id = None,
                                     !.activated_at = None]

\* an update_template that looks the id up before it validates
UpdateTemplateLookupFirst(id, t) ==
    /\ op.name = "none"
    /\ IF id \notin DOMAIN order_templates
         THEN /\ last' = Returned("update_template", id, "Err", "not_found", None, None)
              /\ UNCHANGED order_templates
         ELSE IF Validate(t) # "Ok"
         THEN /\ last' = Returned("update_template", id, "Err", "validation", None, None)
              /\ order_templates' = MapInsert(order_templates, id, t)
         ELSE /\ order_templates' = MapInsert(order_templates, id, t)
              /\ last' = Returned("update_template", id, "Ok", "", None, None)
    /\ broker_calls' = <<>>
    /\ UNCHANGED <<paper_client, live_client, active_account, active_orders,
                   next_order_id, created, op>>
    /\ UNCHANGED locks

\* IBClient::update_template of a template t whose id field is id: validate,
\* then replace the stored template by t if the id is a key
UpdateTemplate(id, t) ==
    /\ op.name = "none"
    /\ IF Validate(t) # "Ok"
         THEN /\ last' = Returned("update_template", id, "Err", "validation", None, None)
              /\ UNCHANGED order_templates
         ELSE IF id \in DOMAIN order_templates
         THEN /\ order_templates' = MapInsert(order_templates, id, t)
              /\ last' = Returned("update_template", id, "Ok", "", None, None)
         ELSE /\ last' = Returned("update_template", id, "Err", "not_found", None, None)
              /\ UNCHANGED order_templates
    /\ broker_calls' = <<>>
    /\ UNCHANGED <<paper_client, live_client, active_account, active_orders,
                   next_order_id, created, op>>
    /\ UNCHANGED locks

\* IBClient::delete_template
DeleteTemplate(id) ==
    /\ op.name = "none"
    /\ IF id \notin DOMAIN order_templates
         THEN /\ last' = Returned("delete_template", id, "Err", "not_found", None, None)
              /\ UNCHANGED order_templates
         ELSE IF IsActive(order_templates[id])
         THEN /\ last' = Returned("delete_template", id, "Err", "validation", None, None)
              /\ UNCHANGED order_templates
         ELSE /\ order_templates' = MapRemove(order_templates, id)
              /\ last' = Returned("delete_template", id, "Ok", "", None, None)
    /\ broker_calls' = <<>>
    /\ UNCHANGED <<paper_client, live_client, active_account, active_orders,
                   next_order_id, created, op>>
    /\ UNCHANGED locks

\* IBClient::get_next_order_id: the counter after the call (the id handed out is
\* the counter before it)
GetNextOrderId == next_order_id + 1

\* IBClient::activate_template up to spawn_blocking: the checks (each an early
\* return), the order ids, and the template set Activating with both ids. The
\* guards of active_account.read() and next_order_id.lock() are dropped inside
\* get_active_client and get_next_order_id; the guard of order_templates.write()
\* is a local of activate_template and lives until it returns
ActivateStart(id) ==
    /\ op.name = "none"
    /\ broker_calls' = <<>>
    /\ IF GetActiveClient # "Ok"
         THEN /\ last' = Returned("activate", id, "Err", "no_active_client", None, None)
              /\ UNCHANGED <<order_templates, next_order_id, op>>
         ELSE IF id \notin DOMAIN order_templates
         THEN /\ last' = Returned("activate", id, "Err", "not_found", None, None)
              /\ UNCHANGED <<order_templates, next_order_id, op>>
         ELSE IF ~CanActivate(order_templates[id])
         THEN /\ last' = Returned("activate", id, "Err", "cannot_activate", None, None)
              /\ UNCHANGED <<order_templates, next_order_id, op>>
         ELSE LET parent_order_id == next_order_id
                  stop_order_id == parent_order_id + 1
              IN /\ next_order_id < FirstOrderId + MaxOrderIds
                 /\ next_order_id' = GetNextOrderId
                 /\ order_templates' = [order_templates EXCEPT
                        ![id].status = "Activating",
                        ![id].parent_order_id = Some(parent_order_id),
                        ![id].stop_order_id = Some(stop_order_id)]
                 /\ op' = [NoOp EXCEPT !.name = "activate", !.id = id,
                              !.pc = "place_parent", !.parent = Some(parent_order_id),
                              !.stop = Some(stop_order_id)]
                 /\ last' = NoLast
    /\ UNCHANGED <<paper_client, live_client, active_account, active_orders, created>>
    /\ locks' = IF op'.name = "none" THEN {} ELSE {"order_templates"}

\* one broker call made by the blocking closure
Call(what, order_id) == [call |-> what, id |-> order_id]

BrokerOutcomes == {"ok", "err"}

\* the closure's `client_guard.place_order(parent_order_id, ..)`; on Err it returns
PlaceParent(outcome) ==
    /\ op.name = "activate"
    /\ op.pc = "place_parent"
    /\ broker_calls' = Append(broker_calls, Call("place_order", op.parent[1]))
    /\ op' = IF outcome = "ok"
               THEN [op EXCEPT !.pc = "place_stop"]
               ELSE [op EXCEPT !.pc = "join", !.res = "Err"]
    /\ UNCHANGED <<paper_client, live_client, active_account, order_templates,
                   active_orders, next_order_id, created, last>>
    /\ UNCHANGED locks

\* the closure's `client_guard.place_order(stop_order_id, ..)`
PlaceStop(outcome) ==
    /\ op.name = "activate"
    /\ op.pc = "place_stop"
    /\ broker_calls' = Append(broker_calls, Call("place_order", op.stop[1]))
    /\ op' = IF outcome = "ok"
               THEN [op EXCEPT !.pc = "join", !.res = "Ok"]
               ELSE [op EXCEPT !.pc = "cancel_parent"]
    /\ UNCHANGED <<paper_client, live_client, active_account, order_templates,
                   active_orders, next_order_id, created, last>>
    /\ UNCHANGED locks

\* `let _ = client_guard.cancel_order(parent_order_id, "")` after the stop failed:
\* whatever the cancel returns, the closure returns the stop's error
CancelPlacedParent(outcome) ==
    /\ op.name = "activate"
    /\ op.pc = "cancel_parent"
    /\ outcome \in BrokerOutcomes
    /\ broker_calls' = Append(broker_calls, Call("cancel_order", op.parent[1]))
    /\ op' = [op EXCEPT !.pc = "join", !.res = "Err"]
    /\ UNCHANGED <<paper_client, live_client, active_account, order_templates,
                   active_orders, next_order_id, created, last>>
    /\ UNCHANGED locks

\* the blocking task ends without returning (its closure panics, or the runtime
\* drops it): spawn_blocking(..).await is a JoinError
BlockingTaskFails ==
    /\ op.name \in {"activate", "deactivate"}
    /\ op.pc # "join"
    /\ op' = [op EXCEPT !.pc = "join", !.res = "JoinErr"]
    /\ UNCHANGED <<paper_client, live_client, active_account, order_templates,
                   active_orders, next_order_id, created, broker_calls, last>>
    /\ UNCHANGED locks

\* an activation that records only the parent order
ActivateFinishParentOnly ==
    /\ op.name = "activate"
    /\ op.pc = "join"
    /\ op.res = "Ok"
    /\ active_orders' = MapInsert(active_orders, op.parent[1], op.id)
    /\ order_templates' = [order_templates EXCEPT ![op.id].status = "Active",
                              ![op.id].activated_at = Some("now")]
    /\ last' = Returned("activate", op.id, "Ok", "", op.parent, op.stop)
    /\ op' = NoOp
    /\ broker_calls' = <<>>
    /\ UNCHANGED <<paper_client, live_client, active_account, next_order_id, created>>
    /\ locks' = {}

\* IBClient::activate_template from the join of the blocking task on: `?` on a
\* JoinError, else the match on the closure's result
ActivateFinish ==
    /\ op.name = "activate"
    /\ op.pc = "join"
    /\ CASE op.res = "JoinErr" ->
              /\ last' = Returned("activate", op.id, "Err", "join_error", op.parent, op.stop)
              /\ UNCHANGED <<order_templates, active_orders>>
         [] op.res = "Ok" ->
              /\ active_orders' = MapInsert(MapInsert(active_orders, op.parent[1], op.id),
                                            op.stop[1], op.id)
              /\ order_templates' = [order_templates EXCEPT ![op.id].status = "Active",
                                        ![op.id].activated_at = Some("now")]
              /\ last' = Returned("activate", op.id, "Ok", "", op.parent, op.stop)
         [] op.res = "Err" ->
              /\ order_templates' = [order_templates EXCEPT ![op.id].status = "Failed",
                                        ![op.id].parent_order_id = None,
                                        ![op.id].stop_order_id = None]
              /\ last' = Returned("activate", op.id, "Err", "place_failed", op.parent, op.stop)
              /\ UNCHANGED active_orders
    /\ op' = NoOp
    /\ broker_calls' = <<>>
    /\ UNCHANGED <<paper_client, live_client, active_account, next_order_id, created>>
    /\ locks' = {}

\* IBClient::deactivate_template up to spawn_blocking (the order_templates.write()
\* guard is a local here too)
DeactivateStart(id) ==
    /\ op.name = "none"
    /\ broker_calls' = <<>>
    /\ IF GetActiveClient # "Ok"
         THEN /\ last' = Returned("deactivate", id, "Err", "no_active_client", None, None)
              /\ UNCHANGED <<order_templates, op>>
         ELSE IF id \notin DOMAIN order_templates
         THEN /\ last' = Returned("deactivate", id, "Err", "not_found", None, None)
              /\ UNCHANGED <<order_templates, op>>
         ELSE IF ~CanDeactivate(order_templates[id])
         THEN /\ last' = Returned("deactivate", id, "Err", "cannot_deactivate", None, None)
              /\ UNCHANGED <<order_templates, op>>
         ELSE /\ order_templates' = [order_templates EXCEPT ![id].status = "Deactivating"]
              /\ op' = [NoOp EXCEPT !.name = "deactivate", !.id = id,
                           !.pc = "cancel_parent",
                           !.parent = order_templates[id].parent_order_id,
                           !.stop = order_templates[id].stop_order_id]
              /\ last' = NoLast
    /\ UNCHANGED <<paper_client, live_client, active_account, active_orders,
                   next_order_id, created>>
    /\ locks' = IF op'.name = "none" THEN {} ELSE {"order_templates"}

\* a closure that gives up after a failed parent cancel
CancelParentStopsOnError(outcome) ==
    /\ op.name = "deactivate"
    /\ op.pc = "cancel_parent"
    /\ op.parent # None
    /\ broker_calls' = Append(broker_calls, Call("cancel_order", op.parent[1]))
    /\ op' = IF outcome = "ok"
               THEN [op EXCEPT !.pc = "cancel_stop"]
               ELSE [op EXCEPT !.pc = "join", !.res = "Joined", !.errors = @ \cup {"parent"}]
    /\ UNCHANGED <<paper_client, live_client, active_account, order_templates,
                   active_orders, next_order_id, created, last>>
    /\ UNCHANGED locks

\* the closure's `if let Some(parent_id) = parent_id { cancel_order(parent_id) }`
CancelParent(outcome) ==
    /\ op.name = "deactivate"
    /\ op.pc = "cancel_parent"
    /\ IF op.parent = None
         THEN /\ outcome = "ok"
              /\ UNCHANGED broker_calls
              /\ op' = [op EXCEPT !.pc = "cancel_stop"]
         ELSE /\ broker_calls' = Append(broker_calls, Call("cancel_order", op.parent[1]))
              /\ op' = [op EXCEPT !.pc = "cancel_stop",
                           !.errors = IF outcome = "ok" THEN @ ELSE @ \cup {"parent"}]
    /\ UNCHANGED <<paper_client, live_client, active_account, order_templates,
                   active_orders, next_order_id, created, last>>
    /\ UNCHANGED locks

\* the closure's `if let Some(stop_id) = stop_id { cancel_order(stop_id) }`
CancelStop(outcome) ==
    /\ op.name = "deactivate"
    /\ op.pc = "cancel_stop"
    /\ IF op.stop = None
         THEN /\ outcome = "ok"
              /\ UNCHANGED broker_calls
              /\ op' = [op EXCEPT !.pc = "join", !.res = "Joined"]
         ELSE /\ broker_calls' = Append(broker_calls, Call("cancel_order", op.stop[1]))
              /\ op' = [op EXCEPT !.pc = "join", !.res = "Joined",
                           !.errors = IF outcome = "ok" THEN @ ELSE @ \cup {"stop"}]
    /\ UNCHANGED <<paper_client, live_client, active_account, order_templates,
                   active_orders, next_order_id, created, last>>
    /\ UNCHANGED locks

\* a deactivation that, with no cancel failed, forgets the stop order's map entry
DeactivateFinishKeepsStop ==
    /\ op.name = "deactivate"
    /\ op.pc = "join"
    /\ op.res # "JoinErr"
    /\ op.errors = {}
    /\ active_orders' = IF op.parent # None THEN MapRemove(active_orders, op.parent[1])
                        ELSE active_orders
    /\ order_templates' = [order_templates EXCEPT ![op.id].status = "Inactive",
                              ![op.id].parent_order_id = None,
                              ![op.id].stop_order_id = None]
    /\ last' = Returned("deactivate", op.id, "Ok", "", op.parent, op.stop)
    /\ op' = NoOp
    /\ broker_calls' = <<>>
    /\ UNCHANGED <<paper_client, live_client, active_account, next_order_id, created>>
    /\ locks' = {}

\* IBClient::deactivate_template from the join on: the order map entries of the
\* cancels that did not fail are removed, then the status is set
DeactivateFinish ==
    /\ op.name = "deactivate"
    /\ op.pc = "join"
    /\ IF op.res = "JoinErr"
         THEN /\ last' = Returned("deactivate", op.id, "Err", "join_error", op.parent, op.stop)
              /\ UNCHANGED <<order_templates, active_orders>>
         ELSE LET t == order_templates[op.id]
                  after_parent == IF t.parent_order_id # None /\ "parent" \notin op.errors
                                    THEN MapRemove(active_orders, t.parent_order_id[1])
                                    ELSE active_orders
                  after_stop == IF t.stop_order_id # None /\ "stop" \notin op.errors
                                  THEN MapRemove(after_parent, t.stop_order_id[1])
                                  ELSE after_parent
              IN /\ active_orders' = after_stop
                 /\ IF op.errors = {}
                      THEN /\ order_templates' = [order_templates EXCEPT
                                 ![op.id].status = "Inactive",
                                 ![op.id].parent_order_id = None,
                                 ![op.id].stop_order_id = None]
                           /\ last' = Returned("deactivate", op.id, "Ok", "", op.parent, op.stop)
                      ELSE /\ order_templates' = [order_templates EXCEPT
                                 ![op.id].status = "Failed"]
                           /\ last' = Returned("deactivate", op.id, "Err", "cancel_failed",
                                               op.parent, op.stop)
    /\ op' = NoOp
    /\ broker_calls' = <<>>
    /\ UNCHANGED <<paper_client, live_client, active_account, next_order_id, created>>
    /\ locks' = {}

\* ------------------------------------------------------------------ event bus
Subs == 1..MaxSubscribers

Notifies == 1..MaxNotifies

\* the tasks that call Event::notify themselves in SpecEvent
Callers == {"a", "b"}

\* a value handed to notify (for the UI bus a UIMessage: its variant and payload),
\* tagged with the caller and the number of the call among that caller's calls
UiMsg(kind, value, caller, seq) ==
    [kind |-> kind, value |-> value, caller |-> caller, seq |-> seq]

NoUiMsg == UiMsg("none", 0, "", 0)

\* a tokio Mutex: free, or held by a subscribe ("s") or notify ("n") call
Free == <<>>

Holder(who, id) == <<who, id>>

NoNotify == [pc |-> "none", arg |-> NoUiMsg, snapshot |-> <<>>, i |-> 0]

\* Event::new, and no call made on it
InitNoEvent ==
    /\ subscribers = <<>>
    /\ subscribers_lock = Free
    /\ ui_events_lock = Free
    /\ stask = [s \in Subs |-> "none"]
    /\ sub_at = [s \in Subs |-> 0]
    /\ ntask = [n \in Notifies |-> NoNotify]
    /\ delivered = [s \in Subs |-> <<>>]

\* a task calls Event::subscribe with subscriber s
SubscribeStart(s) ==
    /\ stask[s] = "none"
    /\ stask' = [stask EXCEPT ![s] = "lock"]
    /\ UNCHANGED <<subscribers, subscribers_lock, ui_events_lock, sub_at, ntask,
                   delivered>>

\* main's `runtime.ui_events.lock().await.subscribe_send_only(handler).await`: the
\* guard of ui_events is taken first and lives to the end of the statement
UiSubscribe(s) ==
    /\ stask[s] = "none"
    /\ ui_events_lock = Free
    /\ ui_events_lock' = Holder("s", s)
    /\ stask' = [stask EXCEPT ![s] = "lock"]
    /\ UNCHANGED <<subscribers, subscribers_lock, sub_at, ntask, delivered>>

\* Event::subscribe: `let mut subscribers = self.subscribers.lock().await`
SubscribeLock(s) ==
    /\ stask[s] = "lock"
    /\ subscribers_lock = Free
    /\ subscribers_lock' = Holder("s", s)
    /\ stask' = [stask EXCEPT ![s] = "locked"]
    /\ UNCHANGED <<subscribers, ui_events_lock, sub_at, ntask, delivered>>

\* Event::subscribe: `subscribers.push(Arc::new(subscriber))`, and the guards dropped
SubscribePush(s) ==
    /\ stask[s] = "locked"
    /\ subscribers' = Append(subscribers, s)
    /\ subscribers_lock' = Free
    /\ ui_events_lock' = IF ui_events_lock = Holder("s", s) THEN Free ELSE ui_events_lock
    /\ stask' = [stask EXCEPT ![s] = "done"]
    /\ sub_at' = [sub_at EXCEPT ![s] = Len(started)]
    /\ UNCHANGED <<ntask, delivered>>

\* the notify calls made so far
NotifyCalls == {n \in Notifies : ntask[n].pc # "none"}

\* caller c calls Event::notify; its earlier calls have returned
Notify(c) ==
    LET n == Cardinality(NotifyCalls) + 1
        k == Cardinality({m \in NotifyCalls : ntask[m].arg.caller = c}) + 1
    IN /\ n \in Notifies
       /\ \A m \in NotifyCalls : ntask[m].arg.caller = c => ntask[m].pc = "done"
       /\ ntask' = [ntask EXCEPT ![n] = [NoNotify EXCEPT !.pc = "lock",
                                            !.arg = UiMsg("value", 0, c, k)]]
       /\ UNCHANGED <<subscribers, subscribers_lock, ui_events_lock, stask, sub_at,
                      delivered>>

\* Event::notify: `self.subscribers.lock().await`
NotifyLock(n) ==
    /\ ntask[n].pc = "lock"
    /\ subscribers_lock = Free
    /\ subscribers_lock' = Holder("n", n)
    /\ ntask' = [ntask EXCEPT ![n].pc = "locked"]
    /\ UNCHANGED <<subscribers, ui_events_lock, stask, sub_at, delivered>>

\* a notify that iterates under the guard instead of dropping it after the clone
NotifySnapshotKeepsLock(n) ==
    /\ ntask[n].pc = "locked"
    /\ ntask' = [ntask EXCEPT ![n].pc = "call", ![n].snapshot = subscribers, ![n].i = 1]
    /\ UNCHANGED <<subscribers, subscribers_lock, ui_events_lock, stask, sub_at,
                   delivered>>

\* Event::notify: `subscribers_guard.clone()`, and the guard dropped at the block's end
NotifySnapshot(n) ==
    /\ ntask[n].pc = "locked"
    /\ ntask' = [ntask EXCEPT ![n].pc = "call", ![n].snapshot = subscribers, ![n].i = 1]
    /\ subscribers_lock' = Free
    /\ UNCHANGED <<subscribers, ui_events_lock, stask, sub_at, delivered>>

\* Event::notify: one turn of `for subscriber in subscribers_snapshot`, calling
\* subscriber.call(arg.clone()); after the last turn notify returns, and the guard
\* of ui_events its caller may hold is dropped
NotifyCall(n) ==
    /\ ntask[n].pc = "call"
    /\ IF ntask[n].i <= Len(ntask[n].snapshot)
         THEN /\ delivered' = [delivered EXCEPT ![ntask[n].snapshot[ntask[n].i]] =
                                  Append(@, ntask[n].arg)]
              /\ ntask' = [ntask EXCEPT ![n].i = @ + 1]
              /\ UNCHANGED ui_events_lock
         ELSE /\ ntask' = [ntask EXCEPT ![n].pc = "done"]
              /\ ui_events_lock' = IF ui_events_lock = Holder("n", n) THEN Free
                                   ELSE ui_events_lock
              /\ UNCHANGED delivered
    /\ UNCHANGED <<subscribers, subscribers_lock, stask, sub_at>>

\* the UIMessages the arm of Mailbox::make for a message of this kind hands to
\* State::send_message_to_ui, s being the State the arm was given
UiMessagesOf(kind, s) ==
    CASE kind = "Start" -> <<[kind |-> "RuntimeStarted", value |-> 0],
                             [kind |-> "StatusMessage", value |-> 0]>>
      [] kind = "Stop" -> <<[kind |-> "RuntimeStopped", value |-> 0],
                            [kind |-> "StatusMessage", value |-> 0]>>
      [] kind = "IncrementCounter" -> <<[kind |-> "UpdateCounter", value |-> s.counter + 1]>>
      [] kind = "DecrementCounter" -> <<[kind |-> "UpdateCounter", value |-> s.counter - 1]>>
      [] kind = "ResetCounter" -> <<[kind |-> "UpdateCounter", value |-> 0],
                                    [kind |-> "StatusMessage", value |-> 0]>>
      [] kind = "Error" -> <<[kind |-> "ErrorMessage", value |-> 0]>>
      [] OTHER -> <<>>

\* State::send_message_to_ui for the messages of handler invocation i: a task is
\* spawned for each if the State holds the Runtime, nothing happens if it does not
SendMessageToUi(i) ==
    IF started[i].in.runtime
      THEN LET ms == UiMessagesOf(started[i].kind, started[i].in)
           IN [k \in 1..Len(ms) |-> UiMsg(ms[k].kind, ms[k].value, i, k)]
      ELSE <<>>

RECURSIVE UiSpawnedUpTo(_)
\* the messages of the tasks spawned by the first i handler invocations, in spawn order
UiSpawnedUpTo(i) == IF i = 0 THEN <<>> ELSE UiSpawnedUpTo(i - 1) \o SendMessageToUi(i)

UiSpawned == UiSpawnedUpTo(Len(started))

\* the task spawned by send_message_to_ui runs:
\* `if let Ok(ui_events) = runtime.ui_events.try_lock() { ui_events.notify(msg).await }`
\* with the lock taken notify starts, without it the task ends at once
TryLockUiEvents(n) ==
    /\ n \in Notifies
    /\ n <= Len(UiSpawned)
    /\ ntask[n].pc = "none"
    /\ IF ui_events_lock = Free
         THEN /\ ui_events_lock' = Holder("n", n)
              /\ ntask' = [ntask EXCEPT ![n] = [NoNotify EXCEPT !.pc = "lock",
                                                   !.arg = UiSpawned[n]]]
         ELSE /\ ntask' = [ntask EXCEPT ![n] = [NoNotify EXCEPT !.pc = "dropped",
                                                   !.arg = UiSpawned[n]]]
              /\ UNCHANGED ui_events_lock
    /\ UNCHANGED <<subscribers, subscribers_lock, stask, sub_at, delivered>>

\* ------------------------------------------------------------------ IB handler
\* the IBMessages about templates
TemplateMsgs == {"CreateTemplate", "UpdateTemplate", "DeleteTemplate",
                 "ActivateTemplate", "DeactivateTemplate"}

\* the arms of handle_ib_message whose Err branch calls
\* state.send_message_to_ui(UIMessage::ErrorMessage(..))
ErrorMessageArms == {"ConnectPaper", "ConnectLive", "CreateTemplate",
                     "ActivateTemplate", "DeactivateTemplate"}

Handler(pc, msg, res, why) == [pc |-> pc, msg |-> msg, res |-> res, why |-> why]

\* handle_ib_message has not been called
InitNoHandler ==
    /\ handler = Handler("idle", "none", "", "")
    /\ ui_sent = <<>>
    /\ response = "none"

\* An arm `match ib_client.lock().await.<call>.await { Ok(..) => .., Err(e) => .. }`
\* once the call has returned (its result is last'). Err: the error message, where
\* the arm has one, then response.send(Err(..)), and the handler returns. Ok: the
\* status message, then update_connection_status / update_templates, whose
\* ib_client.lock().await waits for the mutex whose guard, a temporary of the match
\* scrutinee, the handler still holds.
ArmAfterCall(msg) ==
    IF last'.res = "Ok"
      THEN /\ handler' = Handler("relock", msg, "Ok", "")
           /\ ui_sent' = <<"StatusMessage">>
           /\ response' = "none"
      ELSE /\ handler' = Handler("idle", msg, "Err", last'.why)
           /\ ui_sent' = IF msg \in ErrorMessageArms THEN <<"ErrorMessage">> ELSE <<>>
           /\ response' = "Err"

\* handle_ib_message is called with an IBMessage whose arm makes the IBClient call
\* A: the call returns within the step, or (an activation or deactivation that got
\* as far as spawn_blocking) the handler waits for it
HandleIbMessage(msg, A) ==
    /\ handler.pc = "idle"
    /\ A
    /\ IF op'.name # "none"
         THEN /\ handler' = Handler("call", msg, "", "")
              /\ ui_sent' = <<>>
              /\ response' = "none"
         ELSE ArmAfterCall(msg)

\* the activate_template / deactivate_template call of the handler returns
IbCallReturns(A) ==
    /\ handler.pc = "call"
    /\ A
    /\ ArmAfterCall(handler.msg)

\* the IBMessage::Disconnect arm: the call is a statement of its own, so its guard
\* is gone when update_connection_status locks the client again
HandleDisconnect ==
    /\ handler.pc = "idle"
    /\ Disconnect
    /\ handler' = Handler("idle", "Disconnect", "Ok", "")
    /\ ui_sent' = <<"StatusMessage", "IBConnectionStatus">>
    /\ response' = "Ok"

\* the owner of the IBClient calls it itself (before State carries the client):
\* the start of a call, and the return of one that went through spawn_blocking
DirectCall(A) ==
    /\ handler.pc = "idle"
    /\ A
    /\ UNCHANGED hvars

\* ------------------------------------------------------------------ viewport
ChartViewport(x_min, x_max, y_min, y_max) ==
    [x_min |-> x_min, x_max |-> x_max, y_min |-> y_min, y_max |-> y_max]

\* ChartViewport::new
ChartViewport_new == ChartViewport(Fx(0), Fx(100), Fx(0), Fx(100))

\* ViewportController::new(data_length); min_zoom_bars and max_zoom_bars are
\* MinZoomBars and MaxZoomBars in every controller
ViewportController_new(data_length) ==
    [viewport |-> IF data_length > 0
                    THEN ChartViewport(Fx(0), FMin(FSub(Fx(data_length), Fx(1)), Fx(100)),
                                       Fx(0), Fx(100))
                    ELSE ChartViewport_new,
     data_length |-> data_length]

\* ChartViewport::zoom
ChartViewport_zoom(v, factor, center_x, center_y) ==
    LET x_span == FSub(v.x_max, v.x_min)
        y_span == FSub(v.y_max, v.y_min)
        new_x_span == FDiv(x_span, factor)
        new_y_span == FDiv(y_span, factor)
        x_ratio == FDiv(FSub(center_x, v.x_min), x_span)
        y_ratio == FDiv(FSub(center_y, v.y_min), y_span)
    IN ChartViewport(FSub(center_x, FMul(new_x_span, x_ratio)),
                     FAdd(center_x, FMul(new_x_span, FSub(Fx(1), x_ratio))),
                     FSub(center_y, FMul(new_y_span, y_ratio)),
                     FAdd(center_y, FMul(new_y_span, FSub(Fx(1), y_ratio))))

\* ChartViewport::pan
ChartViewport_pan(v, dx, dy) ==
    ChartViewport(FAdd(v.x_min, dx), FAdd(v.x_max, dx), FAdd(v.y_min, dy), FAdd(v.y_max, dy))

\* the span clamp of constrain_viewport: a span outside the zoom limits is set to
\* the limit about its centre
ConstrainZoom(v) ==
    LET x_span == FSub(v.x_max, v.x_min)
        center == FDiv(FAdd(v.x_min, v.x_max), Fx(2))
    IN IF FLt(x_span, Fx(MinZoomBars))
         THEN [v EXCEPT !.x_min = FSub(center, FDiv(Fx(MinZoomBars), Fx(2))),
                        !.x_max = FAdd(center, FDiv(Fx(MinZoomBars), Fx(2)))]
       ELSE IF FGt(x_span, Fx(MaxZoomBars))
         THEN [v EXCEPT !.x_min = FSub(center, FDiv(Fx(MaxZoomBars), Fx(2))),
                        !.x_max = FAdd(center, FDiv(Fx(MaxZoomBars), Fx(2)))]
       ELSE v

\* the two shifts of constrain_viewport
ConstrainPan(v, max_x) ==
    LET left == IF FLt(v.x_min, Fx(0))
                  THEN [v EXCEPT !.x_min = Fx(0),
                                 !.x_max = FAdd(v.x_max, FSub(Fx(0), v.x_min))]
                  ELSE v
    IN IF FGt(left.x_max, max_x)
         THEN [left EXCEPT !.x_max = max_x,
                           !.x_min = FMax(FSub(left.x_min, FSub(left.x_max, max_x)), Fx(0))]
         ELSE left

\* ViewportController::constrain_viewport
ConstrainViewport(c) ==
    IF c.data_length = 0 THEN c
    ELSE [c EXCEPT !.viewport =
            ConstrainPan(ConstrainZoom(c.viewport), FSub(Fx(c.data_length), Fx(1)))]

\* ViewportController::zoom: nothing happens when the new span is outside the limits
ViewportController_zoom(c, factor, center_x, center_y) ==
    LET current_bars == FSub(c.viewport.x_max, c.viewport.x_min)
        new_bars == FDiv(current_bars, factor)
    IN IF FLt(new_bars, Fx(MinZoomBars)) \/ FGt(new_bars, Fx(MaxZoomBars))
         THEN c
         ELSE ConstrainViewport(
                [c EXCEPT !.viewport = ChartViewport_zoom(c.viewport, factor, center_x, center_y)])

\* ViewportController::pan
ViewportController_pan(c, dx, dy) ==
    ConstrainViewport([c EXCEPT !.viewport = ChartViewport_pan(c.viewport, dx, dy)])

\* ViewportController::reset_zoom
ViewportController_reset_zoom(c) ==
    IF c.data_length > 0
      THEN [c EXCEPT !.viewport.x_min = Fx(0),
                     !.viewport.x_max = FMin(FSub(Fx(c.data_length), Fx(1)), Fx(100))]
      ELSE c

\* ViewportController::set_viewport
ViewportController_set_viewport(c, viewport) ==
    ConstrainViewport([c EXCEPT !.viewport = viewport])

\* ViewportController::update_data_length
ViewportController_update_data_length(c, new_length) ==
    IF FGt(c.viewport.x_max, FSub(Fx(new_length), Fx(1)))
      THEN [c EXCEPT !.data_length = new_length,
                     !.viewport.x_max = FMax(FSub(Fx(new_length), Fx(1)), Fx(0))]
      ELSE [c EXCEPT !.data_length = new_length]

\* ------------------------------------------------------------------ chart handler
\* ChartMessage
UpdateChart == [kind |-> "UpdateChart"]

PanMsg(dx, dy) == [kind |-> "Pan", dx |-> dx, dy |-> dy]

ZoomMsg(factor, center_x, center_y) ==
    [kind |-> "Zoom", factor |-> factor, center_x |-> center_x, center_y |-> center_y]

ResetZoom == [kind |-> "ResetZoom"]

SetViewport(viewport) == [kind |-> "SetViewport", viewport |-> viewport]

ChartCall(msg, fetch, sent) == [msg |-> msg, fetch |-> fetch, sent |-> sent]

NoChartCall == ChartCall("none", "none", <<>>)

\* the controller call of the Pan, Zoom, ResetZoom and SetViewport arms
ControllerCall(c, msg) ==
    CASE msg.kind = "Pan" -> ViewportController_pan(c, msg.dx, msg.dy)
      [] msg.kind = "Zoom" ->
            ViewportController_zoom(c, msg.factor, msg.center_x, msg.center_y)
      [] msg.kind = "ResetZoom" -> ViewportController_reset_zoom(c)
      [] msg.kind = "SetViewport" -> ViewportController_set_viewport(c, msg.viewport)

\* generate_and_send_chart: with chart data and a controller the chart is rendered
\* and sent, or the renderer's error returned; without them nothing happens
GenerateAndSendChart(data, controller, render) ==
    IF data # None /\ controller # None
      THEN IF render = "Ok" THEN [sent |-> <<"ChartImageUpdate">>, res |-> "Ok"]
                            ELSE [sent |-> <<>>, res |-> "Err"]
      ELSE [sent |-> <<>>, res |-> "Ok"]

\* the UpdateChart arm with a client whose get_historical_data returned `bars` bars
UpdateChartFetched(bars, render) ==
    LET controller == IF viewport_controller = None
                        THEN Some(ViewportController_new(bars))
                        ELSE Some(ViewportController_update_data_length(
                                      viewport_controller[1], bars))
        chart == GenerateAndSendChart(Some(bars), controller, render)
    IN /\ chart_data' = Some(bars)
       /\ viewport_controller' = controller
       /\ chart_ui' = ChartCall("UpdateChart", "Ok",
                                IF chart.res = "Err" THEN <<"ErrorMessage">> ELSE chart.sent)

\* handle_chart_message(msg, state, reply_channel), with what the fetch and the
\* renderer come to when the arm reaches them
HandleChartMessage(msg, fetch, render) ==
    /\ chart_ops < MaxChartOps
    /\ chart_ops' = chart_ops + 1
    /\ UNCHANGED ib_client
    /\ IF msg.kind = "UpdateChart"
         THEN IF ~ib_client
                THEN /\ chart_ui' = ChartCall("UpdateChart", "none", <<"ErrorMessage">>)
                     /\ UNCHANGED <<chart_data, viewport_controller>>
              ELSE IF fetch = <<>>
                THEN /\ chart_ui' = ChartCall("UpdateChart", "Err", <<"ErrorMessage">>)
                     /\ UNCHANGED <<chart_data, viewport_controller>>
              ELSE UpdateChartFetched(fetch[1], render)
         ELSE IF viewport_controller = None
           THEN /\ chart_ui' = ChartCall(msg.kind, "none", <<>>)
                /\ UNCHANGED <<chart_data, viewport_controller>>
         ELSE /\ viewport_controller' = Some(ControllerCall(viewport_controller[1], msg))
              /\ chart_ui' = ChartCall(msg.kind, "none",
                     GenerateAndSendChart(chart_data, viewport_controller', render).sent)
              /\ UNCHANGED chart_data

\* handle_ib_message has run once: State.ib_client holds the client from then on
IbClientInstalled ==
    /\ ~ib_client
    /\ ib_client' = TRUE
    /\ UNCHANGED <<viewport_controller, chart_data, chart_ui, chart_ops>>

\* the chart messages and the outcomes enumerated
ChartMessages ==
    {UpdateChart, ResetZoom,
     PanMsg(F(250), Fx(0)), PanMsg(F(-3000), Fx(10)),
     ZoomMsg(F(200), Fx(3), Fx(50)), ZoomMsg(F(50), Fx(3), Fx(50)),
     SetViewport(ChartViewport(Fx(2), Fx(30), Fx(0), Fx(100))),
     SetViewport(ChartViewport(Fx(40), Fx(10), Fx(0), Fx(100))),
     SetViewport(ChartViewport(Fx(40), Fx(60), Fx(0), Fx(100)))}

\* get_historical_data: an error, or a series of so many bars
FetchOutcomes == {None} \cup {Some(n) : n \in {0, 3, 20, 100}}

RenderOutcomes == {"Ok", "Err"}

\* State::new: no broker client, no chart data, no viewport controller
InitNoChart ==
    /\ viewport_controller = None
    /\ chart_data = None
    /\ ib_client = FALSE
    /\ chart_ui = NoChartCall
    /\ chart_ops = 0

\* the arguments of pan and zoom: numbers inside and outside the data, and NaN
PanDx == {NaN, F(-3000), F(250), F(70000)}

PanDy == {Fx(0), Fx(10)}

ZoomFactors == {NaN, F(50), F(200), Fx(-1)}

ZoomCentersX == {NaN, Fx(0), Fx(3), Fx(50)}

ZoomCentersY == {Fx(50)}

\* controller.pan(dx, dy) on the controller State holds
Pan(dx, dy) ==
    /\ viewport_controller # None
    /\ chart_ops < MaxChartOps
    /\ chart_ops' = chart_ops + 1
    /\ viewport_controller' = Some(ViewportController_pan(viewport_controller[1], dx, dy))
    /\ UNCHANGED <<chart_data, ib_client, chart_ui>>

\* controller.zoom(factor, center_x, center_y)
Zoom(factor, center_x, center_y) ==
    /\ viewport_controller # None
    /\ chart_ops < MaxChartOps
    /\ chart_ops' = chart_ops + 1
    /\ viewport_controller' =
          Some(ViewportController_zoom(viewport_controller[1], factor, center_x, center_y))
    /\ UNCHANGED <<chart_data, ib_client, chart_ui>>

\* ------------------------------------------------------------------ filtered ATR
\* OutlierMethod
OutlierIQR(multiplier) == [kind |-> "IQR", multiplier |-> multiplier]

OutlierZScore(threshold) == [kind |-> "ZScore", threshold |-> threshold]

OutlierPercentile(low, high) == [kind |-> "Percentile", low |-> low, high |-> high]

\* iter().sum::<f64>()
RECURSIVE FSum(_)
FSum(q) == IF q = <<>> THEN Fx(0) ELSE FAdd(Head(q), FSum(Tail(q)))

\* sum / len as f64: NaN for the empty list (0.0 / 0.0)
FMean(q) == IF q = <<>> THEN NaN ELSE FDiv(FSum(q), Fx(Len(q)))

\* sort_by(partial_cmp), on the ranges of a series (none of them NaN)
RECURSIVE InsertSorted(_, _)
InsertSorted(x, q) ==
    IF q = <<>> THEN <<x>>
    ELSE IF FLt(x, Head(q)) THEN <<x>> \o q
    ELSE <<Head(q)>> \o InsertSorted(x, Tail(q))

RECURSIVE SortRanges(_)
SortRanges(q) == IF q = <<>> THEN <<>> ELSE InsertSorted(Head(q), SortRanges(Tail(q)))

\* the largest r in lo..hi with r * r <= v
RECURSIVE SqrtBetween(_, _, _)
SqrtBetween(lo, hi, v) ==
    IF lo >= hi THEN lo
    ELSE LET mid == (lo + hi + 1) \div 2
         IN IF mid * mid <= v THEN SqrtBetween(mid, hi, v) ELSE SqrtBetween(lo, mid - 1, v)

\* f64::sqrt, to the 1/Scale below
FSqrt(a) ==
    IF a = NaN \/ a[1] < 0 THEN NaN ELSE F(SqrtBetween(0, 30000, a[1] * Scale))

\* `x as usize`: toward zero, 0 for a negative number and for NaN
AsUsize(a) == IF a = NaN \/ a[1] < 0 THEN 0 ELSE a[1] \div Scale

\* fetch_days = (period_days * 3).max(30).min(60)
FetchDays(period_days) ==
    LET m == IF period_days * 3 > 30 THEN period_days * 3 ELSE 30
    IN IF m < 60 THEN m ELSE 60

\* sorted_ranges[i] for a zero-based index inside the list
At(q, i) == q[i + 1]

PercentileIndex(p, n) == AsUsize(FMul(FDiv(p, Fx(100)), Fx(n)))

\* the bounds of the method: <<lower_bound, upper_bound>>, or <<>> where
\* sorted_ranges[low_idx] is out of range and the call panics
OutlierBounds(sorted, method) ==
    LET n == Len(sorted)
        mean_range == FMean(sorted)
        variance == FMean([i \in 1..n |-> FMul(FSub(sorted[i], mean_range),
                                               FSub(sorted[i], mean_range))])
        std_dev_range == FSqrt(variance)
        q1_range == At(sorted, n \div 4)
        q3_range == At(sorted, (3 * n) \div 4)
        iqr == FSub(q3_range, q1_range)
    IN CASE method.kind = "IQR" ->
              <<FMax(FSub(q1_range, FMul(method.multiplier, iqr)), Fx(0)),
                FAdd(q3_range, FMul(method.multiplier, iqr))>>
         [] method.kind = "ZScore" ->
              <<FMax(FSub(mean_range, FMul(method.threshold, std_dev_range)), Fx(0)),
                FAdd(mean_range, FMul(method.threshold, std_dev_range))>>
         [] method.kind = "Percentile" ->
              LET low_idx == PercentileIndex(method.low, n)
                  high_idx == PercentileIndex(method.high, n)
              IN IF low_idx >= n THEN <<>>
                 ELSE <<At(sorted, low_idx),
                        At(sorted, IF high_idx < n - 1 THEN high_idx ELSE n - 1)>>

\* an outlier test that only looks at the upper bound
IsOutlierAboveOnly(range, lower_bound, upper_bound) == FGt(range, upper_bound)

\* `*range < lower_bound || *range > upper_bound`
IsOutlier(range, lower_bound, upper_bound) ==
    FLt(range, lower_bound) \/ FGt(range, upper_bound)

\* the filtering loop from bar i of the series down to bar 1, `left` bars still to
\* take: a bar is named by its place in the series
RECURSIVE FilterBars(_, _, _, _, _, _, _, _)
FilterBars(ranges, i, left, lower_bound, upper_bound, period_days, filtered_bars, excluded_bars) ==
    IF i = 0 \/ left = 0
      THEN [filtered_bars |-> filtered_bars, excluded_bars |-> excluded_bars]
    ELSE IF IsOutlier(ranges[i], lower_bound, upper_bound)
      THEN FilterBars(ranges, i - 1, left - 1, lower_bound, upper_bound, period_days,
                      filtered_bars, Append(excluded_bars, i))
    ELSE IF Len(filtered_bars) + 1 >= period_days
      THEN [filtered_bars |-> Append(filtered_bars, i), excluded_bars |-> excluded_bars]
    ELSE FilterBars(ranges, i - 1, left - 1, lower_bound, upper_bound, period_days,
                    Append(filtered_bars, i), excluded_bars)

\* the first k elements of q
Take(q, k) == SubSeq(q, 1, IF k < Len(q) THEN k ELSE Len(q))

\* the last k elements of q, last first
RevTake(q, k) ==
    LET m == IF k < Len(q) THEN k ELSE Len(q)
    IN [j \in 1..m |-> q[Len(q) + 1 - j]]

\* the regular ATR taken over every bar of the series
RegularRangesOfAllBars(ranges, period_days) == RevTake(ranges, Len(ranges))

\* regular_ranges: bars.iter().rev().take(period_days)
RegularRanges(ranges, period_days) == RevTake(ranges, period_days)

\* what a call is: an error, a panic, or an ATRResult
AtrErr(kind) == [is |-> "Err", kind |-> kind]

AtrPanic == [is |-> "panic"]

\* IBClient::calculate_filtered_atr on the series get_historical_data returned,
\* given as the bars' ranges high - low in time order
CalculateFilteredAtr(ranges, period_days, method) ==
    IF ranges = <<>> THEN AtrErr("validation")
    ELSE
    LET bounds == OutlierBounds(SortRanges(ranges), method)
    IN IF bounds = <<>> THEN AtrPanic
       ELSE
       LET pass == FilterBars(ranges, Len(ranges), FetchDays(period_days),
                              bounds[1], bounds[2], period_days, <<>>, <<>>)
           used_bars == Len(pass.filtered_bars)
           filtered_ranges == [j \in 1..Len(Take(pass.filtered_bars, period_days)) |->
                                  ranges[pass.filtered_bars[j]]]
           regular_ranges == RegularRanges(ranges, period_days)
       IN [is |-> "Ok",
           total_bars |-> Len(ranges),
           used_bars |-> used_bars,
           excluded_bars |-> Len(pass.excluded_bars),
           lower_bound |-> bounds[1],
           upper_bound |-> bounds[2],
           excluded_bars_detail |-> pass.excluded_bars,
           used_bars_detail |-> pass.filtered_bars,
           is_valid |-> used_bars >= period_days,
           filtered_atr |-> IF used_bars > 0 THEN FMean(filtered_ranges) ELSE Fx(0),
           regular_atr |-> IF regular_ranges # <<>> THEN FMean(regular_ranges) ELSE Fx(0)]

AtrCall(ranges, period_days, method) ==
    [ranges |-> ranges, period_days |-> period_days, method |-> method]

\* the calls enumerated: every short series of a few ranges, and the series of
\* fourteen 1s followed by 100
AtrRanges == {Fx(0), Fx(1), Fx(2), Fx(10)}

AtrSeries == UNION {[1..n -> AtrRanges] : n \in 0..MaxAtrBars}

AtrMethods ==
    {OutlierIQR(F(150)), OutlierIQR(Fx(0)), OutlierIQR(Fx(-1)),
     OutlierZScore(Fx(1)), OutlierZScore(Fx(2)),
     OutlierPercentile(Fx(10), Fx(90)), OutlierPercentile(Fx(50), Fx(25)),
     OutlierPercentile(Fx(0), Fx(100)), OutlierPercentile(Fx(100), Fx(100))}

SpikeSeries == [i \in 1..15 |-> IF i = 15 THEN Fx(100) ELSE Fx(1)]

SpikeCall == AtrCall(SpikeSeries, 14, OutlierIQR(F(150)))

AtrCalls ==
    {AtrCall(r, p, m) : r \in AtrSeries, p \in 0..MaxPeriodDays, m \in AtrMethods}
        \cup {SpikeCall}

\* ------------------------------------------------------------------ position sizing
\* a share count rounded to the nearest whole share
SharesRounded(risk_per_trade, stop_loss_distance) ==
    IF risk_per_trade = NaN \/ stop_loss_distance = NaN THEN 0
    ELSE RoundDiv(risk_per_trade[1], stop_loss_distance[1])

\* (risk_per_trade / stop_loss_distance).floor() as i64, for a distance above
\* zero: 0 for NaN
Shares(risk_per_trade, stop_loss_distance) ==
    IF risk_per_trade = NaN \/ stop_loss_distance = NaN THEN 0
    ELSE risk_per_trade[1] \div stop_loss_distance[1]

SizeErr == [is |-> "Err"]

SizeOk(shares) == [is |-> "Ok", shares |-> shares]

\* position_sizing::calculate_position_size
CalculatePositionSize(risk_per_trade, entry_price, stop_price, side) ==
    IF side = "Long" /\ FGe(stop_price, entry_price) THEN SizeErr
    ELSE IF side = "Short" /\ FLe(stop_price, entry_price) THEN SizeErr
    ELSE LET stop_loss_distance == IF side = "Long" THEN FSub(entry_price, stop_price)
                                                    ELSE FSub(stop_price, entry_price)
         IN IF FLe(stop_loss_distance, Fx(0)) THEN SizeErr
            ELSE IF Shares(risk_per_trade, stop_loss_distance) <= 0 THEN SizeErr
            ELSE SizeOk(Shares(risk_per_trade, stop_loss_distance))

SizeCall(risk_per_trade, entry_price, stop_price, side) ==
    [risk_per_trade |-> risk_per_trade, entry_price |-> entry_price,
     stop_price |-> stop_price, side |-> side]

\* the calls enumerated: risks above, at and below one share's worth, stops on
\* both sides of and at the entry, and NaN
SizeRisks == {Fx(100), Fx(1), F(50), Fx(0), Fx(-100), NaN}

SizeEntries == {Fx(50), Fx(48), NaN}

SizeStops == {Fx(48), Fx(51), Fx(50), F(4990), F(4967), NaN}

SizeCalls ==
    {SizeCall(r, e, p, d) : r \in SizeRisks, e \in SizeEntries, p \in SizeStops,
                            d \in {"Long", "Short"}}

\* the call runs to its end
RunCalculatePositionSize ==
    /\ size_result = None
    /\ size_result' = Some(CalculatePositionSize(size_call.risk_per_trade,
                                                 size_call.entry_price,
                                                 size_call.stop_price, size_call.side))
    /\ UNCHANGED <<size_call, atr_call, atr_result>>

InitNoCalc ==
    /\ atr_call = AtrCall(<<>>, 0, OutlierIQR(F(150)))
    /\ atr_result = None
    /\ size_call = SizeCall(Fx(100), Fx(50), Fx(48), "Long")
    /\ size_result = None

\* the call runs to its end
RunCalculateFilteredAtr ==
    /\ atr_result = None
    /\ atr_result' = Some(CalculateFilteredAtr(atr_call.ranges, atr_call.period_days,
                                               atr_call.method))
    /\ UNCHANGED <<atr_call, size_call, size_result>>

\* the components other than the mailbox, the broker client and validate, at rest
InitRest ==
    /\ InitNoEvent
    /\ InitNoHandler
    /\ InitNoChart
    /\ InitNoCalc

\* ------------------------------------------------------------------ specifications
\* MailboxProcessor::new(buffer_size, initial_state, f): channel made, worker spawned
InitMailboxVars(cap, tasks0, n) ==
    /\ state = State_new
    /\ queue = <<>>
    /\ capacity = cap
    /\ worker = "recv"
    /\ cur = NoCur
    /\ mb_lock = 0
    /\ task = tasks0
    /\ chan = [t \in Tasks |-> NoChan]
    /\ result = [t \in Tasks |-> NoReply]
    /\ issued = n
    /\ enq = <<>>
    /\ started = <<>>
    /\ finished = <<>>

\* Runtime::new has returned: Mailbox::make ran, and tell(NewState(state)) has
\* spawned its task, which has not run yet.
BootTasks ==
    [t \in Tasks |-> IF t = BootTask
                       THEN [pc |-> "spawned", kind |-> "tell", msg |-> NewStateMsg(BootState)]
                       ELSE NoTask]

InitMailbox ==
    /\ InitMailboxVars(SmallBuffer, [t \in Tasks |-> NoTask], 0)
    /\ script = <<>>
    /\ InitBroker
    /\ InitNoCandidate
    /\ InitRest

InitRuntime ==
    /\ InitMailboxVars(DefaultBuffer, BootTasks, 1)
    /\ script = <<>>
    /\ InitBroker
    /\ InitNoCandidate
    /\ InitRest

\* Section 8, scenario 1
CounterScenario == <<"Start", "IncrementCounter", "IncrementCounter",
                     "DecrementCounter", "ResetCounter", "State">>

Scripts == { CounterScenario,
             <<"IncrementCounter", "IncrementCounter", "ResetCounter", "State">>,
             <<"Start", "DecrementCounter", "Stop", "State">>,
             <<"Start", "Error", "State", "IncrementCounter", "State">> }

InitScenario ==
    /\ InitMailboxVars(DefaultBuffer, BootTasks, 1)
    /\ script \in Scripts
    /\ InitBroker
    /\ InitNoCandidate
    /\ InitRest

\* the messages the producers of SpecMailbox and SpecRuntime choose among
SentKinds == {"IncrementCounter", "ResetCounter", "State"}

ToldKinds == {"Start", "IncrementCounter", "State"}

AskedKinds == {"State", "IncrementCounter"}

NextMailbox ==
    \/ (\E k \in SentKinds : MbSend(Msg(k))) /\ UNCHANGED <<bvars, pvars, xvars>>
    \/ (\E k \in SentKinds : MbFireAndForget(Msg(k))) /\ UNCHANGED <<bvars, pvars, xvars>>
    \/ (\E t \in Tasks : Push(t)) /\ UNCHANGED <<bvars, pvars, xvars>>
    \/ (\E t \in Tasks : RecvReply(t)) /\ UNCHANGED <<bvars, pvars, xvars>>
    \/ (WorkerRecv) /\ UNCHANGED <<bvars, pvars, xvars>>
    \/ (WorkerHandle) /\ UNCHANGED <<bvars, pvars, xvars>>
    \/ (WorkerReply) /\ UNCHANGED <<bvars, pvars, xvars>>

NextRuntime ==
    \/ (\E k \in ToldKinds : Tell(Msg(k))) /\ UNCHANGED <<bvars, pvars, xvars>>
    \/ (\E k \in AskedKinds : Ask(Msg(k))) /\ UNCHANGED <<bvars, pvars, xvars>>
    \/ (\E t \in Tasks : LockMailbox(t)) /\ UNCHANGED <<bvars, pvars, xvars>>
    \/ (\E t \in Tasks : Push(t)) /\ UNCHANGED <<bvars, pvars, xvars>>
    \/ (\E t \in Tasks : RecvReply(t)) /\ UNCHANGED <<bvars, pvars, xvars>>
    \/ (\E t \in Tasks : Abandon(t)) /\ UNCHANGED <<bvars, pvars, xvars>>
    \/ (WorkerRecv) /\ UNCHANGED <<bvars, pvars, xvars>>
    \/ (WorkerHandle) /\ UNCHANGED <<bvars, pvars, xvars>>
    \/ (WorkerReply) /\ UNCHANGED <<bvars, pvars, xvars>>

NextScenario ==
    \/ (AskScripted) /\ UNCHANGED <<bvars, pvars, xvars>>
    \/ (\E t \in Tasks : LockMailbox(t)) /\ UNCHANGED <<bvars, pvars, xvars>>
    \/ (\E t \in Tasks : Push(t)) /\ UNCHANGED <<bvars, pvars, xvars>>
    \/ (\E t \in Tasks : RecvReply(t)) /\ UNCHANGED <<bvars, pvars, xvars>>
    \/ (WorkerRecv) /\ UNCHANGED <<bvars, pvars, xvars>>
    \/ (WorkerHandle) /\ UNCHANGED <<bvars, pvars, xvars>>
    \/ (WorkerReply) /\ UNCHANGED <<bvars, pvars, xvars>>

SpecMailbox == InitMailbox /\ [][NextMailbox]_vars

\* back-pressure: a mailbox made with a buffer of 1..SmallBuffer pairs, producers
\* that call send and fire_and_forget, and the worker task scheduled whenever it
\* can take a step, each handler invocation returning
InitBackPressure ==
    /\ \E cap \in 1..SmallBuffer : InitMailboxVars(cap, [t \in Tasks |-> NoTask], 0)
    /\ script = <<>>
    /\ InitBroker
    /\ InitNoCandidate
    /\ InitRest

NextBackPressure ==
    \/ MbSend(Msg("State")) /\ UNCHANGED <<bvars, pvars, xvars>>
    \/ MbFireAndForget(Msg("IncrementCounter")) /\ UNCHANGED <<bvars, pvars, xvars>>
    \/ (\E t \in Tasks : Push(t)) /\ UNCHANGED <<bvars, pvars, xvars>>
    \/ (\E t \in Tasks : RecvReply(t)) /\ UNCHANGED <<bvars, pvars, xvars>>
    \/ (WorkerRecv) /\ UNCHANGED <<bvars, pvars, xvars>>
    \/ (WorkerHandle) /\ UNCHANGED <<bvars, pvars, xvars>>
    \/ (WorkerReply) /\ UNCHANGED <<bvars, pvars, xvars>>

SpecBackPressure ==
    /\ InitBackPressure
    /\ [][NextBackPressure]_vars
    /\ WF_vars(WorkerRecv /\ UNCHANGED <<bvars, pvars, xvars>>)
    /\ WF_vars(WorkerHandle /\ UNCHANGED <<bvars, pvars, xvars>>)
    /\ WF_vars(WorkerReply /\ UNCHANGED <<bvars, pvars, xvars>>)

SpecRuntime == InitRuntime /\ [][NextRuntime]_vars

SpecScenario == InitScenario /\ [][NextScenario]_vars

\* the IBClient: its calls
\* are made one at a time (each holds the registry's write lock, or the client's
\* own mutex, until it returns)
InitBrokerOnly ==
    /\ InitMailboxVars(DefaultBuffer, BootTasks, 1)
    /\ script = <<>>
    /\ InitBroker
    /\ InitNoCandidate
    /\ InitRest

ConnectOutcomes == {"ok", "err"}

NextBroker ==
    \/ (\E o \in ConnectOutcomes : ConnectPaper(o)) /\ UNCHANGED <<mvars, pvars, xvars>>
    \/ (\E o \in ConnectOutcomes : ConnectLive(o)) /\ UNCHANGED <<mvars, pvars, xvars>>
    \/ Disconnect /\ UNCHANGED <<mvars, pvars, xvars>>
    \/ SwitchToPaper /\ UNCHANGED <<mvars, pvars, xvars>>
    \/ SwitchToLive /\ UNCHANGED <<mvars, pvars, xvars>>
    \/ (\E sd \in Sides, q \in Quantities, l \in LimitPrices, st \in StopPrices :
            CreateTemplate(sd, q, l, st)) /\ UNCHANGED <<mvars, pvars, xvars>>
    \/ (\E id \in TemplateIds, c \in Copies, q \in Quantities :
            UpdateTemplate(id, EditedCopy(id, c, q))) /\ UNCHANGED <<mvars, pvars, xvars>>
    \/ (\E id \in TemplateIds : DeleteTemplate(id)) /\ UNCHANGED <<mvars, pvars, xvars>>
    \/ (\E id \in TemplateIds : ActivateStart(id)) /\ UNCHANGED <<mvars, pvars, xvars>>
    \/ (\E o \in BrokerOutcomes : PlaceParent(o)) /\ UNCHANGED <<mvars, pvars, xvars>>
    \/ (\E o \in BrokerOutcomes : PlaceStop(o)) /\ UNCHANGED <<mvars, pvars, xvars>>
    \/ (\E o \in BrokerOutcomes : CancelPlacedParent(o)) /\ UNCHANGED <<mvars, pvars, xvars>>
    \/ BlockingTaskFails /\ UNCHANGED <<mvars, pvars, xvars>>
    \/ ActivateFinish /\ UNCHANGED <<mvars, pvars, xvars>>
    \/ (\E id \in TemplateIds : DeactivateStart(id)) /\ UNCHANGED <<mvars, pvars, xvars>>
    \/ (\E o \in BrokerOutcomes : CancelParent(o)) /\ UNCHANGED <<mvars, pvars, xvars>>
    \/ (\E o \in BrokerOutcomes : CancelStop(o)) /\ UNCHANGED <<mvars, pvars, xvars>>
    \/ DeactivateFinish /\ UNCHANGED <<mvars, pvars, xvars>>

SpecBroker == InitBrokerOnly /\ [][NextBroker]_vars

\* OrderTemplate::validate on its own, for templates built from any f64 values
Floats == {NaN, F(-1), F(0), F(1), F(2)}

InitValidate ==
    /\ InitMailboxVars(DefaultBuffer, BootTasks, 1)
    /\ script = <<>>
    /\ InitBroker
    /\ candidate \in {NewTemplate(sd, q, l, st) :
                         sd \in Sides, q \in Floats, l \in Floats, st \in Floats}
    /\ verdict = ""
    /\ InitRest

\* template.validate()
ValidateCandidate ==
    /\ verdict = ""
    /\ verdict' = Validate(candidate)
    /\ UNCHANGED candidate

NextValidate ==
    \/ ValidateCandidate /\ UNCHANGED <<mvars, bvars, xvars>>

SpecValidate == InitValidate /\ [][NextValidate]_vars

\* the IBClient's two accounts
NextConnection ==
    \/ (\E o \in ConnectOutcomes : ConnectPaper(o)) /\ UNCHANGED <<mvars, pvars, xvars>>
    \/ (\E o \in ConnectOutcomes : ConnectLive(o)) /\ UNCHANGED <<mvars, pvars, xvars>>
    \/ Disconnect /\ UNCHANGED <<mvars, pvars, xvars>>
    \/ SwitchToPaper /\ UNCHANGED <<mvars, pvars, xvars>>
    \/ SwitchToLive /\ UNCHANGED <<mvars, pvars, xvars>>

SpecConnection == InitBrokerOnly /\ [][NextConnection]_vars


\* an Event shared by tasks that subscribe and tasks that notify
notEvent == <<mvars, bvars, pvars, hvars, cvars, fvars>>

NextEvent ==
    \/ (\E s \in Subs : SubscribeStart(s)) /\ UNCHANGED notEvent
    \/ (\E s \in Subs : SubscribeLock(s)) /\ UNCHANGED notEvent
    \/ (\E s \in Subs : SubscribePush(s)) /\ UNCHANGED notEvent
    \/ (\E c \in Callers : Notify(c)) /\ UNCHANGED notEvent
    \/ (\E n \in Notifies : NotifyLock(n)) /\ UNCHANGED notEvent
    \/ (\E n \in Notifies : NotifySnapshot(n)) /\ UNCHANGED notEvent
    \/ (\E n \in Notifies : NotifyCall(n)) /\ UNCHANGED notEvent

SpecEvent == InitBrokerOnly /\ [][NextEvent]_vars

\* the Runtime with its UI bus: one caller asks a script of counter messages, the
\* handler's send_message_to_ui tasks run, and subscribers are added as main does
UiScripts == { <<"IncrementCounter", "ResetCounter">>,
               <<"IncrementCounter", "DecrementCounter", "IncrementCounter">> }

InitUiBus ==
    /\ InitMailboxVars(DefaultBuffer, BootTasks, 1)
    /\ script \in UiScripts
    /\ InitBroker
    /\ InitNoCandidate
    /\ InitRest

NextUiBus ==
    \/ (AskScripted) /\ UNCHANGED <<bvars, pvars, xvars>>
    \/ (\E t \in Tasks : LockMailbox(t)) /\ UNCHANGED <<bvars, pvars, xvars>>
    \/ (\E t \in Tasks : Push(t)) /\ UNCHANGED <<bvars, pvars, xvars>>
    \/ (\E t \in Tasks : RecvReply(t)) /\ UNCHANGED <<bvars, pvars, xvars>>
    \/ (WorkerRecv) /\ UNCHANGED <<bvars, pvars, xvars>>
    \/ (WorkerHandle) /\ UNCHANGED <<bvars, pvars, xvars>>
    \/ (WorkerReply) /\ UNCHANGED <<bvars, pvars, xvars>>
    \/ (\E s \in Subs : UiSubscribe(s)) /\ UNCHANGED notEvent
    \/ (\E s \in Subs : SubscribeLock(s)) /\ UNCHANGED notEvent
    \/ (\E s \in Subs : SubscribePush(s)) /\ UNCHANGED notEvent
    \/ (\E n \in Notifies : TryLockUiEvents(n)) /\ UNCHANGED notEvent
    \/ (\E n \in Notifies : NotifyLock(n)) /\ UNCHANGED notEvent
    \/ (\E n \in Notifies : NotifySnapshot(n)) /\ UNCHANGED notEvent
    \/ (\E n \in Notifies : NotifyCall(n)) /\ UNCHANGED notEvent

SpecUiBus == InitUiBus /\ [][NextUiBus]_vars

\* handle_ib_message, given a State whose IBClient is in any state its calls reach
notIb == <<mvars, pvars, evars, cvars, fvars>>

NextIbHandler ==
    \/ (\E o \in ConnectOutcomes : DirectCall(ConnectPaper(o))) /\ UNCHANGED notIb
    \/ (\E o \in ConnectOutcomes : DirectCall(ConnectLive(o))) /\ UNCHANGED notIb
    \/ DirectCall(SwitchToLive) /\ UNCHANGED notIb
    \/ (\E sd \in Sides, q \in Quantities, l \in LimitPrices, st \in StopPrices :
            DirectCall(CreateTemplate(sd, q, l, st))) /\ UNCHANGED notIb
    \/ (\E id \in TemplateIds : DirectCall(ActivateStart(id))) /\ UNCHANGED notIb
    \/ DirectCall(ActivateFinish) /\ UNCHANGED notIb
    \/ (\E o \in BrokerOutcomes : PlaceParent(o)) /\ UNCHANGED <<hvars, notIb>>
    \/ (\E o \in BrokerOutcomes : PlaceStop(o)) /\ UNCHANGED <<hvars, notIb>>
    \/ (\E o \in BrokerOutcomes : CancelPlacedParent(o)) /\ UNCHANGED <<hvars, notIb>>
    \/ BlockingTaskFails /\ UNCHANGED <<hvars, notIb>>
    \/ (\E o \in BrokerOutcomes : CancelParent(o)) /\ UNCHANGED <<hvars, notIb>>
    \/ (\E o \in BrokerOutcomes : CancelStop(o)) /\ UNCHANGED <<hvars, notIb>>
    \/ (\E o \in ConnectOutcomes : HandleIbMessage("ConnectPaper", ConnectPaper(o)))
            /\ UNCHANGED notIb
    \/ (\E o \in ConnectOutcomes : HandleIbMessage("ConnectLive", ConnectLive(o)))
            /\ UNCHANGED notIb
    \/ HandleDisconnect /\ UNCHANGED notIb
    \/ HandleIbMessage("SwitchToPaper", SwitchToPaper) /\ UNCHANGED notIb
    \/ HandleIbMessage("SwitchToLive", SwitchToLive) /\ UNCHANGED notIb
    \/ (\E sd \in Sides, q \in Quantities, l \in LimitPrices, st \in StopPrices :
            HandleIbMessage("CreateTemplate", CreateTemplate(sd, q, l, st)))
            /\ UNCHANGED notIb
    \/ (\E id \in TemplateIds, c \in Copies, q \in Quantities :
            HandleIbMessage("UpdateTemplate", UpdateTemplate(id, EditedCopy(id, c, q))))
            /\ UNCHANGED notIb
    \/ (\E id \in TemplateIds : HandleIbMessage("DeleteTemplate", DeleteTemplate(id)))
            /\ UNCHANGED notIb
    \/ (\E id \in TemplateIds : HandleIbMessage("ActivateTemplate", ActivateStart(id)))
            /\ UNCHANGED notIb
    \/ IbCallReturns(ActivateFinish) /\ UNCHANGED notIb
    \/ (\E id \in TemplateIds : HandleIbMessage("DeactivateTemplate", DeactivateStart(id)))
            /\ UNCHANGED notIb
    \/ IbCallReturns(DeactivateFinish) /\ UNCHANGED notIb

SpecIbHandler == InitBrokerOnly /\ [][NextIbHandler]_vars

\* a ViewportController made for a series of more than min_zoom_bars bars, panned
\* and zoomed
DataLengths == {6, 50, 600}

notChart == <<mvars, bvars, pvars, evars, hvars, fvars>>

InitViewport ==
    /\ InitMailboxVars(DefaultBuffer, BootTasks, 1)
    /\ script = <<>>
    /\ InitBroker
    /\ InitNoCandidate
    /\ InitNoEvent
    /\ InitNoHandler
    /\ InitNoCalc
    /\ viewport_controller \in {Some(ViewportController_new(n)) : n \in DataLengths}
    /\ chart_data = None
    /\ ib_client = FALSE
    /\ chart_ui = NoChartCall
    /\ chart_ops = 0

NextViewport ==
    \/ (\E dx \in PanDx, dy \in PanDy : Pan(dx, dy)) /\ UNCHANGED notChart
    \/ (\E f \in ZoomFactors, cx \in ZoomCentersX, cy \in ZoomCentersY : Zoom(f, cx, cy))
            /\ UNCHANGED notChart

SpecViewport == InitViewport /\ [][NextViewport]_vars

\* the chart handler, on a State that starts without client, data or controller
NextChart ==
    \/ IbClientInstalled /\ UNCHANGED notChart
    \/ (\E m \in ChartMessages, f \in FetchOutcomes, r \in RenderOutcomes :
            HandleChartMessage(m, f, r)) /\ UNCHANGED notChart

SpecChart == InitBrokerOnly /\ [][NextChart]_vars

\* calculate_filtered_atr, one call per behaviour
notCalc == <<mvars, bvars, pvars, evars, hvars, cvars>>

InitAtr ==
    /\ InitMailboxVars(DefaultBuffer, BootTasks, 1)
    /\ script = <<>>
    /\ InitBroker
    /\ InitNoCandidate
    /\ InitNoEvent
    /\ InitNoHandler
    /\ InitNoChart
    /\ atr_call \in AtrCalls
    /\ atr_result = None
    /\ size_call = SizeCall(Fx(100), Fx(50), Fx(48), "Long")
    /\ size_result = None

NextAtr ==
    \/ RunCalculateFilteredAtr /\ UNCHANGED notCalc

SpecAtr == InitAtr /\ [][NextAtr]_vars

\* calculate_position_size, one call per behaviour
InitSizing ==
    /\ InitMailboxVars(DefaultBuffer, BootTasks, 1)
    /\ script = <<>>
    /\ InitBroker
    /\ InitNoCandidate
    /\ InitNoEvent
    /\ InitNoHandler
    /\ InitNoChart
    /\ atr_call = AtrCall(<<>>, 0, OutlierIQR(F(150)))
    /\ atr_result = None
    /\ size_call \in SizeCalls
    /\ size_result = None

NextSizing ==
    \/ RunCalculatePositionSize /\ UNCHANGED notCalc

SpecSizing == InitSizing /\ [][NextSizing]_vars

\* ------------------------------------------------------------------ claims C1..C5
\* the handler invocation of task t has returned
Processed(t) == \E i \in 1..Len(finished) : finished[i].t = t

\* every call made so far has had its message folded into State
AllProcessed == \A t \in 1..issued : Processed(t)

\* the calls made so far whose message bumps the version
BumpsSent == Cardinality({t \in 1..issued : task[t].msg.kind \in BumpKinds})

\* C1: the worker handles the pairs in the order they entered the channel, one at
\* a time (an invocation starts only after the previous one returned), and each
\* invocation starts from the state the previous one returned, for pairs sent by
\* send and by fire_and_forget alike.
C1_SerialInOrder ==
    /\ Len(started) <= Len(enq)
    /\ Len(started) - Len(finished) \in {0, 1}
    /\ \A i \in 1..Len(started) : started[i].t = enq[i]
    /\ \A i \in 1..Len(started) :
          started[i].in = IF i = 1 THEN State_new ELSE finished[i - 1].out

\* two pairs wait in the channel behind one that was handled, sent by both operations
C1_Witness ==
    /\ Len(queue) = 2
    /\ Len(finished) >= 1
    /\ state.version >= 1
    /\ \E a, b \in 1..issued : task[a].kind = "send" /\ task[b].kind = "faf"

C3_TellOrderKept ==
    \A i, j \in 1..Len(started) :
        (/\ i < j
         /\ started[i].t # BootTask
         /\ started[j].t # BootTask
         /\ task[started[j].t].kind = "tell")
            => started[j].t > started[i].t

\* C5 (as claimed): an ask abandoned by its caller at any moment leaves the worker
\* running: its message is folded into State and later messages are still handled.
C5_AbandonedAskHarmless ==
    (\E t \in 1..issued : task[t].pc = "dropped") => worker # "dead"


\* the kinds of the messages handled so far, in the order the worker took them
KindsStarted == [i \in 1..Len(started) |-> started[i].kind]

LastTemplate == order_templates[last.id]

\* C6: when activate_template(id) has returned Ok, the template is Active, its
\* parent_order_id and stop_order_id are both Some, and both ids are keys of the
\* active-order map, mapped to the template's id.
C6_ActivatedIsRecorded ==
    (last.op = "activate" /\ last.res = "Ok")
        => /\ LastTemplate.status = "Active"
           /\ LastTemplate.parent_order_id # None
           /\ LastTemplate.stop_order_id # None
           /\ \A oid \in {LastTemplate.parent_order_id[1], LastTemplate.stop_order_id[1]} :
                 /\ oid \in DOMAIN active_orders
                 /\ active_orders[oid] = last.id

\* an activation has returned Ok with both its orders placed
C6_Witness ==
    /\ last.op = "activate"
    /\ last.res = "Ok"
    /\ LastTemplate.status = "Active"
    /\ LastTemplate.stop_order_id = last.stop
    /\ last.stop[1] \in DOMAIN active_orders

\* C7 (as claimed, for the causes that arise after the checks): when
\* activate_template(id) has returned Err because a placement failed or because
\* the blocking task itself failed, the template is Failed and neither order id
\* of the activation is a key of the active-order map.
C7_ErrLeavesFailed ==
    (last.op = "activate" /\ last.res = "Err" /\ last.why \in {"place_failed", "join_error"})
        => /\ LastTemplate.status = "Failed"
           /\ last.parent[1] \notin DOMAIN active_orders
           /\ last.stop[1] \notin DOMAIN active_orders

\* the broker calls the blocking closure of an activation can have made when it
\* returns: the parent alone (it failed), parent then stop (both placed), or
\* parent, stop and one cancel of the parent (the stop failed)
C8_CallSequence ==
    (op.name = "activate" /\ op.pc = "join" /\ op.res # "JoinErr")
        => LET p == Call("place_order", op.parent[1])
               st == Call("place_order", op.stop[1])
               c == Call("cancel_order", op.parent[1])
           IN IF op.res = "Ok" THEN broker_calls = <<p, st>>
              ELSE broker_calls \in {<<p>>, <<p, st, c>>}

\* C8 (as claimed, its end state): when a placement of the bracket failed, the
\* template ends Failed with both ids cleared, and the active-order map has no
\* entry for either order id of the activation.
C8_FailedBracketLeavesNoEntries ==
    (last.op = "activate" /\ last.why = "place_failed")
        => /\ LastTemplate.status = "Failed"
           /\ LastTemplate.parent_order_id = None
           /\ LastTemplate.stop_order_id = None
           /\ last.parent[1] \notin DOMAIN active_orders
           /\ last.stop[1] \notin DOMAIN active_orders

\* C9 (as claimed): an activation that has passed its checks has taken two ids
\* from the counter: stop_id = parent_id + 1 and the counter stands at
\* parent_id + 2.
C9_TwoIdsPerActivation ==
    (op.name = "activate")
        => /\ op.stop[1] = op.parent[1] + 1
           /\ next_order_id = op.parent[1] + 2

\* activate_template(id) is called in this step
ActivateCalled(id) ==
    /\ op.name = "none"
    /\ \/ op'.name = "activate" /\ op'.id = id
       \/ op'.name = "none" /\ last'.op = "activate" /\ last'.id = id

\* what the claim requires of the state activate_template(id) is called in
ActivateRequires(id) ==
    /\ active_account # "None"
    /\ id \in DOMAIN order_templates
    /\ order_templates[id].status \in {"Inactive", "Failed"}

\* C10: activate_template goes on to the broker only with an active client and a
\* template that is Inactive or Failed; called with no active account, an unknown
\* id, or a template that is Activating, Active or Deactivating, it returns an
\* error, starts no broker call, and leaves the templates, the order-id counter
\* and the active-order map as they were.
C10_RejectedWithoutEffect ==
    [][\A id \in TemplateIds :
          /\ (ActivateCalled(id) /\ ~ActivateRequires(id))
                => /\ last'.res = "Err"
                   /\ op' = NoOp
                   /\ broker_calls' = <<>>
                   /\ UNCHANGED <<order_templates, next_order_id, active_orders>>
          /\ (ActivateCalled(id) /\ op'.name = "activate") => ActivateRequires(id)]_vars

\* an activation of a template that is already Active has been turned down
C10_Witness ==
    /\ last.op = "activate"
    /\ last.res = "Err"
    /\ last.why = "cannot_activate"
    /\ LastTemplate.status = "Active"
    /\ last.id \in {active_orders[oid] : oid \in DOMAIN active_orders}

\* ------------------------------------------------------------------ claims C11..C20
\* deactivate_template(id) is called in this step
DeactivateCalled(id) ==
    /\ op.name = "none"
    /\ \/ op'.name = "deactivate" /\ op'.id = id
       \/ op'.name = "none" /\ last'.op = "deactivate" /\ last'.id = id

\* the call is on a stored template that is not Active
NotActiveStored(id) ==
    /\ id \in DOMAIN order_templates
    /\ order_templates[id].status # "Active"

\* C11 (as claimed): deactivate_template on a stored template that is not Active
\* returns the Validation error, calls the broker for nothing, and leaves the
\* templates and the active-order map as they were.
C11_NotActiveIsValidationError ==
    [][\A id \in TemplateIds :
          (DeactivateCalled(id) /\ NotActiveStored(id))
              => /\ last'.res = "Err"
                 /\ last'.why = "cannot_deactivate"
                 /\ op' = NoOp
                 /\ broker_calls' = <<>>
                 /\ UNCHANGED <<order_templates, active_orders>>]_vars

\* C11 (amended): deactivate_template on a stored template that is not Active
\* returns an error (the Validation error when there is an active client, the
\* connection error of get_active_client when there is none), calls the broker
\* for nothing, and leaves the templates and the active-order map as they were.
C11_NotActiveRejected ==
    [][\A id \in TemplateIds :
          (DeactivateCalled(id) /\ NotActiveStored(id))
              => /\ last'.res = "Err"
                 /\ last'.why = IF active_account = "None" THEN "no_active_client"
                                ELSE "cannot_deactivate"
                 /\ op' = NoOp
                 /\ broker_calls' = <<>>
                 /\ UNCHANGED <<order_templates, active_orders>>]_vars

\* a deactivation of a Failed template has been turned down with an account active
C11_Witness ==
    /\ last.op = "deactivate"
    /\ last.why = "cannot_deactivate"
    /\ active_account # "None"
    /\ LastTemplate.status = "Failed"

\* the order ids held by an Option
IdsOf(o) == {o[i] : i \in 1..Len(o)}

\* the blocking task of a deactivation has returned and the call returns in this step
DeactivateReturns ==
    /\ op.name = "deactivate"
    /\ op.pc = "join"
    /\ op.res # "JoinErr"
    /\ op'.name = "none"

\* C12: when the parent cancel and the stop cancel of a deactivation both
\* succeeded, deactivate_template returns Ok and leaves the template Inactive with
\* parent_order_id and stop_order_id None and neither id a key of the
\* active-order map.
C12_CleanDeactivation ==
    [][(DeactivateReturns /\ op.errors = {})
          => /\ last'.op = "deactivate"
             /\ last'.res = "Ok"
             /\ order_templates'[op.id].status = "Inactive"
             /\ order_templates'[op.id].parent_order_id = None
             /\ order_templates'[op.id].stop_order_id = None
             /\ \A oid \in IdsOf(op.parent) \cup IdsOf(op.stop) :
                   oid \notin DOMAIN active_orders']_vars

\* a deactivation that cancelled both orders has returned Ok
C12_Witness ==
    /\ last.op = "deactivate"
    /\ last.res = "Ok"
    /\ last.parent # None
    /\ last.stop # None
    /\ LastTemplate.status = "Inactive"

\* the entry of order id oid is left as it was by this step
EntryKept(oid) ==
    IF oid \in DOMAIN active_orders
      THEN oid \in DOMAIN active_orders' /\ active_orders'[oid] = active_orders[oid]
      ELSE oid \notin DOMAIN active_orders'

\* C13: the blocking closure of a deactivation cancels the parent and then the
\* stop, whatever the parent cancel returned; when a cancel failed the call
\* returns Err and the template becomes Failed, the active-order map entry of an
\* order whose cancel failed is left as it was, and the entry of an order whose
\* cancel succeeded is removed.
C13_PartialDeactivation ==
    [][DeactivateReturns
          => /\ broker_calls = [i \in 1..Len(op.parent \o op.stop) |->
                                   Call("cancel_order", (op.parent \o op.stop)[i])]
             /\ op.errors # {}
                   => /\ last'.op = "deactivate"
                      /\ last'.res = "Err"
                      /\ order_templates'[op.id].status = "Failed"
                      /\ \A oid \in IdsOf(op.parent) :
                            IF "parent" \in op.errors THEN EntryKept(oid)
                            ELSE oid \notin DOMAIN active_orders'
                      /\ \A oid \in IdsOf(op.stop) :
                            IF "stop" \in op.errors THEN EntryKept(oid)
                            ELSE oid \notin DOMAIN active_orders']_vars

\* a deactivation whose parent cancel failed and whose stop cancel succeeded has
\* returned
C13_Witness ==
    /\ last.op = "deactivate"
    /\ last.res = "Err"
    /\ last.why = "cancel_failed"
    /\ LastTemplate.status = "Failed"
    /\ last.parent # None
    /\ last.stop # None
    /\ last.parent[1] \in DOMAIN active_orders
    /\ last.stop[1] \notin DOMAIN active_orders

\* what the claim requires of a valid template, with the comparisons of f64
\* (NaN is greater than nothing and less than nothing)
ValidAsSpecified(t) ==
    /\ FGt(t.quantity, F(0))
    /\ FGt(t.limit_price, F(0))
    /\ FGt(t.stop_price, F(0))
    /\ t.side = "Long" => FLt(t.stop_price, t.limit_price)
    /\ t.side = "Short" => FGt(t.stop_price, t.limit_price)

\* C15 (as claimed): validate returns Ok exactly when quantity > 0, limit_price > 0,
\* stop_price > 0, stop_price < limit_price for a Long and stop_price > limit_price
\* for a Short, and Err in every other case.
C15_ValidateIffValid ==
    (verdict # "") => ((verdict = "Ok") <=> ValidAsSpecified(candidate))

\* on templates whose three numbers are numbers, validate is as specified
C15_ValidateOnNumbers ==
    (/\ verdict # ""
     /\ candidate.quantity # NaN
     /\ candidate.limit_price # NaN
     /\ candidate.stop_price # NaN)
        => ((verdict = "Ok") <=> ValidAsSpecified(candidate))

\* delete_template(id) is called in this step
DeleteCalled(id) ==
    /\ op.name = "none"
    /\ last'.op = "delete_template"
    /\ last'.id = id

\* C14: delete_template on a stored template that is Active returns the Validation
\* error and leaves the registry as it was, and no step of any operation takes
\* a template that is Active out of the registry.
C14_ActiveNeverDeleted ==
    [][\A id \in DOMAIN order_templates :
          order_templates[id].status = "Active"
              => /\ id \in DOMAIN order_templates'
                 /\ DeleteCalled(id)
                       => /\ last'.res = "Err"
                          /\ last'.why = "validation"
                          /\ UNCHANGED order_templates]_vars

\* a delete of an Active template has been turned down
C14_Witness ==
    /\ last.op = "delete_template"
    /\ last.res = "Err"
    /\ last.why = "validation"
    /\ last.id \in DOMAIN order_templates
    /\ LastTemplate.status = "Active"

\* create_template or update_template is called in this step
RegistryWriteCalled ==
    /\ op.name = "none"
    /\ last'.op \in {"create_template", "update_template"}

\* C16: create_template and update_template validate before they touch the
\* registry: a call that returns an error (Validation for a template that fails
\* validate, NotFound for an update whose id is not a key) leaves the registry
\* unchanged; a call that returns Ok has stored the caller's template, and it
\* passes validate; and every template in the registry passes validate.
C16_ValidatedBeforeStored ==
    [][/\ (RegistryWriteCalled /\ last'.res = "Err")
             => /\ last'.why \in {"validation", "not_found"}
                /\ UNCHANGED order_templates
       /\ (RegistryWriteCalled /\ last'.why = "not_found")
             => /\ last'.op = "update_template"
                /\ last'.id \notin DOMAIN order_templates
       /\ (RegistryWriteCalled /\ last'.res = "Ok")
             => /\ last'.id \in DOMAIN order_templates'
                /\ Validate(order_templates'[last'.id]) = "Ok"
                /\ last'.op = "update_template" => last'.id \in DOMAIN order_templates
       /\ \A id \in DOMAIN order_templates' : Validate(order_templates'[id]) = "Ok"]_vars

\* an update of a stored template with an invalid copy has been turned down
C16_Witness ==
    /\ last.op = "update_template"
    /\ last.res = "Err"
    /\ last.why = "validation"
    /\ last.id \in DOMAIN order_templates
    /\ Validate(LastTemplate) = "Ok"

\* the status changes of the lifecycle
Lifecycle ==
    {<<"Inactive", "Activating">>, <<"Failed", "Activating">>,
     <<"Activating", "Active">>, <<"Active", "Deactivating">>,
     <<"Deactivating", "Inactive">>, <<"Activating", "Failed">>,
     <<"Deactivating", "Failed">>}

\* C17 (as claimed): a template enters the registry Inactive, and no step of
\* create, update, delete, activate or deactivate changes the status of a stored
\* template other than along the lifecycle.
C17_LifecycleOnly ==
    [][\A id \in DOMAIN order_templates' :
          IF id \in DOMAIN order_templates
            THEN \/ order_templates'[id].status = order_templates[id].status
                 \/ <<order_templates[id].status, order_templates'[id].status>> \in Lifecycle
            ELSE order_templates'[id].status = "Inactive"]_vars

\* update_template(id) is called in this step
UpdateCalled(id) ==
    /\ op.name = "none"
    /\ last'.op = "update_template"
    /\ last'.id = id

\* the steps of every operation but update_template keep to the lifecycle
C17_LifecycleButUpdate ==
    [][\A id \in DOMAIN order_templates' :
          IF id \in DOMAIN order_templates
            THEN \/ order_templates'[id].status = order_templates[id].status
                 \/ <<order_templates[id].status, order_templates'[id].status>> \in Lifecycle
                 \/ UpdateCalled(id)
            ELSE order_templates'[id].status = "Inactive"]_vars

\* C18 (as claimed): whenever no activate or deactivate call is in flight, a
\* template that is Failed has parent_order_id = None and stop_order_id = None.
C18_FailedHasNoIds ==
    (op.name = "none")
        => \A id \in DOMAIN order_templates :
              order_templates[id].status = "Failed"
                  => /\ order_templates[id].parent_order_id = None
                     /\ order_templates[id].stop_order_id = None

\* a template that an activation left Failed has no ids
C18_FailedActivationHasNoIds ==
    (/\ last.op = "activate"
     /\ last.res = "Err"
     /\ last.why = "place_failed"
     /\ LastTemplate.status = "Failed")
        => /\ LastTemplate.parent_order_id = None
           /\ LastTemplate.stop_order_id = None

\* the spawn_blocking closure of the call in flight is running a broker call, and
\* the calling task is parked on its JoinHandle
InBlockingCall == op.name \in {"activate", "deactivate"} /\ op.pc # "join"

\* C20 (as claimed): no async lock of the IBClient is held by a task that is
\* waiting for a blocking broker call.
C20_NoLockAcrossBlockingCall == InBlockingCall => locks = {}

\* the calls about the connection
ConnectionCalls ==
    {"connect_paper", "connect_live", "switch_to_paper", "switch_to_live", "disconnect"}

\* C19: after every connect_paper, connect_live, switch_to_paper, switch_to_live
\* and disconnect, succeeding or failing, active_account = Paper implies the
\* paper handle is set and active_account = Live implies the live handle is set; a
\* connect that fails and a switch to an account that is not connected return an
\* error and leave both handles and active_account as they were.
C19_ActiveAccountConnected ==
    [][/\ active_account' = "Paper" => paper_client'
       /\ active_account' = "Live" => live_client'
       /\ (op.name = "none" /\ last'.op \in ConnectionCalls /\ last'.res = "Err")
             => UNCHANGED <<paper_client, live_client, active_account>>
       /\ (ConnectPaper("err") \/ ConnectLive("err")) => last'.res = "Err"
       /\ ((SwitchToPaper /\ ~paper_client) \/ (SwitchToLive /\ ~live_client))
             => last'.res = "Err"]_vars

\* a switch to the live account, which is not connected, has been turned down
\* while the paper account is the active one
C19_Witness ==
    /\ last.op = "switch_to_live"
    /\ last.res = "Err"
    /\ active_account = "Paper"
    /\ paper_client
    /\ ~live_client

\* ------------------------------------------------------------------ claims C21..C30
\* C21 (as claimed): State.version never decreases from one message handled by
\* the mailbox worker to the next, whatever the messages are, NewState included.
C21_VersionNeverDecreases == [][state'.version >= state.version]_vars

\* how many times x occurs in the sequence q
Count(q, x) == Cardinality({i \in 1..Len(q) : q[i] = x})

\* subscriber s is among the first k entries of notify call n's snapshot
InSnapshot(n, s, k) ==
    \E i \in 1..Len(ntask[n].snapshot) : i <= k /\ ntask[n].snapshot[i] = s

\* C22: a notify call delivers its value exactly once to every subscriber that was
\* in the list when the call took its snapshot, and to no other; the calls that one
\* caller makes one after another reach each subscriber in call order; and the
\* lock of the subscriber list is not held while a subscriber runs: whoever holds
\* it is about to push or to clone and release, so a subscribe that runs while a
\* notify does is never blocked for good and never changes what is delivered.
C22_NotifyDelivery ==
    /\ \A n \in Notifies :
          /\ ntask[n].pc \in {"call", "done"}
                => ntask[n].snapshot = SubSeq(subscribers, 1, Len(ntask[n].snapshot))
          /\ \A s \in Subs :
                Count(delivered[s], ntask[n].arg) =
                    CASE ntask[n].pc = "done" ->
                            IF InSnapshot(n, s, Len(ntask[n].snapshot)) THEN 1 ELSE 0
                      [] ntask[n].pc = "call" ->
                            IF InSnapshot(n, s, ntask[n].i - 1) THEN 1 ELSE 0
                      [] OTHER -> 0
          /\ ntask[n].pc = "call" => subscribers_lock # Holder("n", n)
    /\ \A s \in Subs : \A i, j \in 1..Len(delivered[s]) :
          (i < j /\ delivered[s][i].caller = delivered[s][j].caller)
              => delivered[s][i].seq < delivered[s][j].seq
    /\ subscribers_lock # Free
          => \/ /\ subscribers_lock[1] = "s"
                /\ stask[subscribers_lock[2]] = "locked"
             \/ /\ subscribers_lock[1] = "n"
                /\ ntask[subscribers_lock[2]].pc = "locked"

\* a subscribe holds the lock of the list while a notify that took its snapshot
\* before is calling its subscriber, after an earlier notify of the same caller
\* had reached that subscriber
C22_Witness ==
    \E n, m \in Notifies, s, r \in Subs :
        /\ ntask[m].pc = "done"
        /\ ntask[n].pc = "call"
        /\ ntask[n].arg.caller = ntask[m].arg.caller
        /\ ntask[n].snapshot = <<s>>
        /\ ntask[n].i = 2
        /\ delivered[s] = <<ntask[m].arg, ntask[n].arg>>
        /\ stask[r] = "locked"

\* the messages that change the counter
CounterKinds == {"IncrementCounter", "DecrementCounter", "ResetCounter"}

\* every handler invocation has returned and every task spawned by
\* send_message_to_ui has ended; no subscribe call is under way
UiQuiet ==
    /\ Len(finished) = Len(started)
    /\ \A n \in Notifies : n <= Len(UiSpawned) => ntask[n].pc \in {"done", "dropped"}
    /\ \A s \in Subs : stask[s] \in {"none", "done"}

\* C23 (as claimed): for every IncrementCounter, DecrementCounter and ResetCounter
\* the runtime has processed, once the notification tasks have run, every subscriber
\* that was on the UI bus when the message was processed has been called with an
\* UpdateCounter carrying the new counter value: none is dropped, also when several
\* notifications are in flight together or a subscribe is under way.
C23_CounterChangesReachUi ==
    UiQuiet =>
        \A i \in 1..Len(finished), s \in Subs :
            (started[i].kind \in CounterKinds /\ stask[s] = "done" /\ sub_at[s] < i)
                => \E k \in 1..Len(delivered[s]) :
                      /\ delivered[s][k].kind = "UpdateCounter"
                      /\ delivered[s][k].value = finished[i].out.counter
                      /\ delivered[s][k].caller = i

\* the causes of error that are AppError::Validation or AppError::NotFound
ValidationOrNotFound == {"validation", "not_found", "cannot_activate", "cannot_deactivate"}

\* C24 (as claimed): when the handler has returned from a CreateTemplate,
\* UpdateTemplate, DeleteTemplate, ActivateTemplate or DeactivateTemplate whose
\* IBClient call failed with a Validation or NotFound error, it has sent the error
\* on the response channel and has emitted an ErrorMessage for the UI bus.
C24_TemplateErrorsMirrored ==
    (/\ handler.pc = "idle"
     /\ handler.msg \in TemplateMsgs
     /\ handler.res = "Err"
     /\ handler.why \in ValidationOrNotFound)
        => /\ response = "Err"
           /\ \E i \in 1..Len(ui_sent) : ui_sent[i] = "ErrorMessage"

\* the error does reach the caller, and the UI bus too for the arms that have
\* an ErrorMessage
C24_TemplateErrorsReturned ==
    (/\ handler.pc = "idle"
     /\ handler.msg \in TemplateMsgs
     /\ handler.res = "Err")
        => /\ response = "Err"
           /\ handler.msg \in {"CreateTemplate", "ActivateTemplate", "DeactivateTemplate"}
                 => ui_sent = <<"ErrorMessage">>

\* the x-range of the controller's viewport is inside the data and its span is
\* inside the zoom limits
ViewportInside(c) ==
    /\ FLe(Fx(0), c.viewport.x_min)
    /\ FLt(c.viewport.x_min, c.viewport.x_max)
    /\ FLe(c.viewport.x_max, FSub(Fx(c.data_length), Fx(1)))
    /\ FLe(Fx(MinZoomBars), FSub(c.viewport.x_max, c.viewport.x_min))
    /\ FLe(FSub(c.viewport.x_max, c.viewport.x_min), Fx(MaxZoomBars))

\* C25 (as claimed): for a ViewportController made with data_length > min_zoom_bars,
\* after any sequence of pan and zoom calls with any arguments,
\* 0 <= x_min < x_max <= data_length - 1 and
\* min_zoom_bars <= x_max - x_min <= max_zoom_bars.
C25_ViewportInvariant ==
    (viewport_controller # None /\ viewport_controller[1].data_length > MinZoomBars)
        => ViewportInside(viewport_controller[1])

\* the same for a viewport that no NaN has reached, with arguments small enough
\* for every sum to be exact
C25_ViewportInvariantOnNumbers ==
    (/\ viewport_controller # None
     /\ viewport_controller[1].data_length > MinZoomBars
     /\ viewport_controller[1].viewport.x_min # NaN
     /\ viewport_controller[1].viewport.x_max # NaN)
        => ViewportInside(viewport_controller[1])

\* the range of bar i lies in [lower_bound, upper_bound] of result r
InBounds(r, i) ==
    /\ FLe(r.lower_bound, atr_call.ranges[i])
    /\ FLe(atr_call.ranges[i], r.upper_bound)

SpikeReturned == atr_call = SpikeCall /\ atr_result # None

\* C27 (as claimed): given 15 daily bars whose ranges in time order are fourteen 1s
\* followed by 100, method IQR(1.5) and period_days = 14, calculate_filtered_atr
\* returns excluded_bars_detail holding exactly the range-100 bar,
\* filtered_atr = 1.0, regular_atr about 7.6 and is_valid = true.
C27_SpikeAsClaimed ==
    SpikeReturned =>
        /\ atr_result[1].is = "Ok"
        /\ atr_result[1].excluded_bars_detail = <<15>>
        /\ atr_result[1].filtered_atr = Fx(1)
        /\ FGe(atr_result[1].regular_atr, F(755))
        /\ FLe(atr_result[1].regular_atr, F(765))
        /\ atr_result[1].is_valid

\* C27 (amended): the same call returns excluded_bars_detail holding exactly the
\* range-100 bar, filtered_atr = 1.0, is_valid = true, and regular_atr = 113 / 14,
\* about 8.07: the mean range of the newest 14 bars, the spike among them.
C27_Spike ==
    SpikeReturned =>
        /\ atr_result[1].is = "Ok"
        /\ atr_result[1].excluded_bars_detail = <<15>>
        /\ atr_result[1].used_bars_detail = [j \in 1..14 |-> 15 - j]
        /\ atr_result[1].filtered_atr = Fx(1)
        /\ atr_result[1].regular_atr = F(807)
        /\ atr_result[1].is_valid

C27_Witness ==
    /\ SpikeReturned
    /\ atr_result[1].is = "Ok"
    /\ atr_result[1].excluded_bars = 1
    /\ atr_result[1].used_bars = 14

\* the arguments of the call are numbers
SizeOnNumbers ==
    /\ size_call.risk_per_trade # NaN
    /\ size_call.entry_price # NaN
    /\ size_call.stop_price # NaN

\* |entry - stop| of the call, in 1/Scale
SizeDistance ==
    IF size_call.entry_price[1] >= size_call.stop_price[1]
      THEN size_call.entry_price[1] - size_call.stop_price[1]
      ELSE size_call.stop_price[1] - size_call.entry_price[1]

\* the stop of the call is not on the loss side of the entry
SizeWrongSide ==
    \/ size_call.side = "Long" /\ size_call.stop_price[1] >= size_call.entry_price[1]
    \/ size_call.side = "Short" /\ size_call.stop_price[1] <= size_call.entry_price[1]

UnservedChartCall ==
    /\ chart_ops' = chart_ops + 1
    /\ \/ chart_ui'.msg = "UpdateChart" /\ (~ib_client \/ chart_ui'.fetch = "Err")
       \/ /\ chart_ui'.msg \in {"Pan", "Zoom", "ResetZoom", "SetViewport"}
          /\ (viewport_controller = None \/ chart_data = None)

ChartStateUnchanged ==
    UNCHANGED <<viewport_controller, chart_data, ib_client>>

\* C29 (as claimed): a chart message that cannot be served fails fast with an
\* ErrorMessage on the UI bus and leaves State unchanged: UpdateChart when State
\* holds no broker client (or the fetch fails), and Pan, Zoom, ResetZoom or
\* SetViewport when no chart data or viewport controller exists yet.
C29_UnservedFailsFast ==
    [][UnservedChartCall =>
        (chart_ui'.sent = <<"ErrorMessage">> /\ ChartStateUnchanged)]_vars

\* what holds: State is unchanged by every such call, and the UpdateChart calls
\* among them emit the ErrorMessage
C29_UnservedLeavesState ==
    [][UnservedChartCall =>
        /\ ChartStateUnchanged
        /\ chart_ui'.msg = "UpdateChart" => chart_ui'.sent = <<"ErrorMessage">>]_vars

\* the producers whose pairs the worker has taken, in the order taken, and those
\* whose pairs wait in the channel
TakenTasks == [i \in 1..Len(started) |-> started[i].t]

QueuedTasks == [i \in 1..Len(queue) |-> queue[i].t]

\* the channel never holds more than its buffer, and the pairs taken followed by
\* the pairs queued are the pairs accepted, in the order accepted, each with its
\* producer's message
BufferKept ==
    /\ Len(queue) <= capacity
    /\ TakenTasks \o QueuedTasks = enq
    /\ \A i \in 1..Len(queue) : queue[i].msg = task[queue[i].t].msg

Accepted(t) == \E i \in 1..Len(enq) : enq[i] = t

\* C30: when the mailbox buffer is full, a producer's send or fire_and_forget
\* waits until there is room: no message is dropped or overwritten, and every
\* message accepted into the buffer is eventually processed, in FIFO order, as long
\* as each handler invocation terminates.
C30_BackPressure ==
    /\ []BufferKept
    /\ \A t \in Tasks : Accepted(t) ~> Processed(t)

\* a producer waits on a full buffer while the worker is at work
C30_Witness ==
    /\ Len(queue) = capacity
    /\ \E t \in Tasks : task[t].pc = "pushing"
    /\ finished # <<>>

\* ------------------------------------------------------------------ claims C31..C40
\* UIMessage a was emitted before UIMessage b: by an earlier handler invocation,
\* or earlier by the same one
EmittedBefore(a, b) ==
    \/ a.caller < b.caller
    \/ a.caller = b.caller /\ a.seq < b.seq

\* C31 (as claimed): the UI messages emitted while the mailbox worker handles
\* runtime messages reach each subscriber in the order they were emitted: for
\* ResetCounter, UpdateCounter(0) before the status message, and the UI messages
\* of an earlier-processed runtime message before those of a later-processed one.
C31_UiOrderKept ==
    \A s \in Subs : \A j, k \in 1..Len(delivered[s]) :
        j < k => EmittedBefore(delivered[s][j], delivered[s][k])

\* C32 (as claimed): only Start and Stop change State.is_running (Start sets it
\* true, Stop sets it false); handling any other runtime message leaves is_running
\* unchanged.
C32_OnlyStartStopSetRunning ==
    [][state'.is_running # state.is_running =>
        \/ cur.msg.kind = "Start" /\ state'.is_running
        \/ cur.msg.kind = "Stop" /\ ~state'.is_running]_vars

\* the same with NewState, which installs the State it carries, set apart
C32_RunningSetByStartStopNewState ==
    [][state'.is_running # state.is_running =>
        \/ cur.msg.kind = "Start" /\ state'.is_running
        \/ cur.msg.kind = "Stop" /\ ~state'.is_running
        \/ cur.msg.kind = "NewState" /\ state'.is_running = cur.msg.st.is_running]_vars

\* the bars of the call whose range is inside the bounds of result r, newest first
RECURSIVE InBoundNewestFirst(_, _)
InBoundNewestFirst(r, i) ==
    IF i = 0 THEN <<>>
    ELSE IF InBounds(r, i) THEN <<i>> \o InBoundNewestFirst(r, i - 1)
    ELSE InBoundNewestFirst(r, i - 1)

\* what the filtering pass of result r is claimed to have done
PassAsClaimed(r) ==
    /\ r.used_bars <= atr_call.period_days
    /\ r.used_bars + r.excluded_bars <= r.total_bars
    /\ r.used_bars_detail =
          Take(InBoundNewestFirst(r, Len(atr_call.ranges)), atr_call.period_days)
    /\ r.is_valid <=> r.used_bars >= atr_call.period_days

\* C33 (as claimed): the ATR filtering pass visits bars newest first and stops as
\* soon as the number of accepted bars equals period_days, for every
\* period_days >= 0 and every bar series: used_bars <= period_days,
\* used_bars + excluded_bars <= total_bars, the bars in used_bars_detail are the
\* newest in-bound bars, and is_valid holds exactly when used_bars >= period_days.
C33_FilterPass ==
    (atr_result # None /\ atr_result[1].is = "Ok") => PassAsClaimed(atr_result[1])

\* the same for period_days >= 1
C33_FilterPassFromOne ==
    (atr_result # None /\ atr_result[1].is = "Ok" /\ atr_call.period_days >= 1)
        => PassAsClaimed(atr_result[1])

\* the call uses the Percentile method on n >= 1 bars, and has ended
PercentileReturned ==
    /\ atr_result # None
    /\ atr_call.method.kind = "Percentile"
    /\ Len(atr_call.ranges) >= 1
    /\ FLe(Fx(0), atr_call.method.low) /\ FLe(atr_call.method.low, Fx(100))
    /\ FLe(Fx(0), atr_call.method.high) /\ FLe(atr_call.method.high, Fx(100))

\* floor(p / 100 * n) for a percentile p kept to 1/Scale
FloorIndex(p, n) == (p[1] * n) \div (100 * Scale)

\* the call has returned with the bounds the claim gives
PercentileAsClaimed ==
    LET n == Len(atr_call.ranges)
        sorted == SortRanges(atr_call.ranges)
        lo == FloorIndex(atr_call.method.low, n)
        hi == IF FloorIndex(atr_call.method.high, n) < n - 1
                THEN FloorIndex(atr_call.method.high, n) ELSE n - 1
    IN /\ atr_result[1].is = "Ok"
       /\ lo \in 0..(n - 1)
       /\ hi \in 0..(n - 1)
       /\ atr_result[1].lower_bound = sorted[lo + 1]
       /\ atr_result[1].upper_bound = sorted[hi + 1]

\* C34 (as claimed): for the Percentile(lo, hi) method with lo and hi anywhere in
\* [0, 100] and n >= 1 bars, the bounds are lower = sorted[floor(lo/100 * n)] and
\* upper = sorted[min(floor(hi/100 * n), n - 1)], both indexes inside 0..n-1, so
\* the computation returns a result for every such input.
C34_PercentileBounds == PercentileReturned => PercentileAsClaimed

\* the same for lo below 100
C34_PercentileBoundsBelow100 ==
    (PercentileReturned /\ FLt(atr_call.method.low, Fx(100))) => PercentileAsClaimed

\* the controller c as pan, an accepted zoom and set_viewport leave it just before
\* they call constrain_viewport, for arguments that are numbers
BeforeConstrain(c) ==
    {[c EXCEPT !.viewport = ChartViewport_pan(c.viewport, dx, dy)] :
        dx \in PanDx \ {NaN}, dy \in PanDy}
    \cup {[c EXCEPT !.viewport = ChartViewport_zoom(c.viewport, f, cx, cy)] :
            f \in {g \in ZoomFactors \ {NaN} :
                     LET new_bars == FDiv(FSub(c.viewport.x_max, c.viewport.x_min), g)
                     IN ~(FLt(new_bars, Fx(MinZoomBars)) \/ FGt(new_bars, Fx(MaxZoomBars)))},
            cx \in ZoomCentersX \ {NaN}, cy \in ZoomCentersY}
    \cup {[c EXCEPT !.viewport = ChartViewport(Fx(2), Fx(30), Fx(0), Fx(100))]}

XSpan(v) == FSub(v.x_max, v.x_min)

\* constrain_viewport on p puts the x-range inside the data
ConstrainedInside(p) ==
    LET after == ConstrainViewport(p).viewport
    IN /\ FLe(Fx(0), after.x_min)
       /\ FLe(after.x_max, FSub(Fx(p.data_length), Fx(1)))

\* constrain_viewport on p moves both edges of the span-clamped range by the same
\* amount, so the span is the one the zoom-limit clamp left
ConstrainedByShift(p) ==
    LET clamped == ConstrainZoom(p.viewport)
        after == ConstrainViewport(p).viewport
    IN /\ FSub(after.x_min, clamped.x_min) = FSub(after.x_max, clamped.x_max)
       /\ FGe(XSpan(after), XSpan(clamped))

\* the controller holds numbers
OnNumbers(c) == c.viewport.x_min # NaN /\ c.viewport.x_max # NaN

\* C35 (as claimed): constrain_viewport, run after every pan, accepted zoom and
\* set_viewport, brings the x-range inside [0, data_length - 1] by shifting both
\* edges by the same amount and never reduces x_max - x_min below the span it had
\* after the zoom-limit clamp.
C35_ConstrainShifts ==
    (viewport_controller # None /\ OnNumbers(viewport_controller[1])) =>
        \A p \in BeforeConstrain(viewport_controller[1]) :
            ConstrainedInside(p) /\ ConstrainedByShift(p)

\* what holds: the x-range ends inside the data, and the span is kept whenever the
\* span-clamped range is no longer than the data
C35_ConstrainInside ==
    (viewport_controller # None /\ OnNumbers(viewport_controller[1])) =>
        \A p \in BeforeConstrain(viewport_controller[1]) :
            /\ ConstrainedInside(p)
            /\ FLe(XSpan(ConstrainZoom(p.viewport)), FSub(Fx(p.data_length), Fx(1)))
                  => ConstrainedByShift(p)

\* State holds both chart data and a viewport controller
ChartHeld == chart_data # None /\ viewport_controller # None

\* the last chart message handled was an UpdateChart
AfterUpdateChart == chart_ui.msg = "UpdateChart"

\* x_min <= x_max <= data_length - 1 in controller c
ViewportOrdered(c) ==
    /\ FLe(c.viewport.x_min, c.viewport.x_max)
    /\ FLe(c.viewport.x_max, FSub(Fx(c.data_length), Fx(1)))

\* C36 (as claimed): whenever State holds both chart_data and a viewport
\* controller, the controller's data_length equals the number of bars in
\* chart_data, after any sequence of chart messages (UpdateChart for a symbol with
\* fewer bars and UpdateChart whose fetch fails included); and after such an
\* update the viewport still satisfies x_min <= x_max <= data_length - 1.
C36_DataLengthAndViewport ==
    ChartHeld =>
        /\ viewport_controller[1].data_length = chart_data[1]
        /\ AfterUpdateChart => ViewportOrdered(viewport_controller[1])

\* the first half alone
C36_DataLengthIsBars ==
    ChartHeld => viewport_controller[1].data_length = chart_data[1]

\* the second half for series that are not empty
C36_ViewportOrderedOnBars ==
    (ChartHeld /\ AfterUpdateChart /\ chart_data[1] >= 1)
        => ViewportOrdered(viewport_controller[1])

\* C37 (as claimed): handling any IBMessage terminates provided the broker call it
\* makes returns: the worker never waits for the shared IBClient mutex while itself
\* holding the guard of that mutex, and on the success paths of the connect,
\* switch and template arms the handler re-locks the client, emits its update,
\* sends Ok on the response channel and returns.
C37_HandlerReturns ==
    /\ handler.pc # "relock"
    /\ handler.res = "Ok" => (handler.pc = "idle" /\ response = "Ok")

\* what holds: the handler returns, with the response sent, from every arm whose
\* call failed and from Disconnect
C37_FailedCallsReturn ==
    /\ handler.res = "Err" => (handler.pc = "idle" /\ response = "Err")
    /\ handler.msg = "Disconnect" => (handler.pc = "idle" /\ response = "Ok")
    /\ handler.pc = "relock" => (handler.res = "Ok" /\ response = "none")

\* an activation takes its order ids in this step, the call that returned last
\* being an activation that had taken ids too
ActivationAfterActivation ==
    /\ op.name = "none"
    /\ op'.name = "activate"
    /\ last.op = "activate"
    /\ last.parent # None

\* C38 (as claimed): across any sequence of activations (of the same or of
\* different templates, succeeding or failing), every broker order id handed out is
\* different from every id handed out before.
C38_OrderIdsNeverReused ==
    [][ActivationAfterActivation =>
        {op'.parent[1], op'.stop[1]} \cap {last.parent[1], last.stop[1]} = {}]_vars

\* what holds: the parent ids of successive activations differ, and so do the
\* stop ids
C38_ParentIdsNeverReused ==
    [][ActivationAfterActivation =>
        /\ op'.parent[1] > last.parent[1]
        /\ op'.stop[1] > last.stop[1]]_vars

\* the order ids template t holds
TemplateOrderIds(t) == IdsOf(t.parent_order_id) \cup IdsOf(t.stop_order_id)

\* C39 (as claimed): in every state reached by any sequence of create, update,
\* delete, activate and deactivate operations with any broker outcomes, each key of
\* the active-order map is the parent_order_id or stop_order_id of a template that
\* exists in the registry and whose id is the mapped value.
C39_ActiveOrdersBelongToTemplates ==
    (op.name = "none") =>
        \A k \in DOMAIN active_orders :
            /\ active_orders[k] \in DOMAIN order_templates
            /\ k \in TemplateOrderIds(order_templates[active_orders[k]])

\* what holds: a key of the map was handed out by an activation, so it is below
\* the counter's successor
C39_ActiveOrdersWereHandedOut ==
    \A k \in DOMAIN active_orders : k >= FirstOrderId /\ k <= next_order_id

\* C40 (as claimed): the NewState told by Runtime::new is handled before every
\* message sent afterwards through the same Runtime: it is the first message the
\* worker takes, so every later message is folded into a State whose runtime
\* back-reference is set, and NewState overwrites no later message's effect.
C40_NewStateProcessedFirst ==
    \A i \in 1..Len(started) :
        IF i = 1 THEN started[i].t = BootTask
        ELSE /\ started[i].t # BootTask
             /\ started[i].in.runtime

\* NewState is handled at most once, and from then on the back-reference stays set
C40_NewStateInstallsRuntime ==
    \A i, j \in 1..Len(started) :
        (i < j /\ started[i].t = BootTask)
            => (started[j].t # BootTask /\ started[j].in.runtime)

====
